---- MODULE Spec2Model ----
(***************************************************************************)
(* A model of the OmniBuilder control loop: the planner's step scheduler   *)
(* and plan-status aggregation (core/planner.py), the orchestrator's run   *)
(* loop (agent.py) and the confirmation gate (environment/safety.py).      *)
(***************************************************************************)
EXTENDS Integers, Sequences, FiniteSets, TLC

(***************************************************************************)
(* Bounds of the model.                                                    *)
(***************************************************************************)
\* longest list of steps handed to prioritize_steps / held by a plan
MaxSteps == 3
\* calls made on one SafetyPrompt
\* the largest max_retries of a RetryConfig
MaxRetries == 3

\* calls of retry_with_backoff made on one SelfCorrector
MaxRetryCalls == 2

MaxSafetyCalls == 2

\* calls of execute_shell made on one TerminalExecutionAgent
MaxShellCalls == 2

\* run() calls made on one agent whose executions may overlap
MaxOverlap == 2

\* steps of the plan of such a call
MaxOverlapSteps == 1

\* calls of add_output and add_error made on one WorkingMemoryManager
MaxMemoryCalls == 4

(***************************************************************************)
(* models.py: the enums.                                                   *)
(***************************************************************************)
PENDING == "pending"
IN_PROGRESS == "in_progress"
COMPLETED == "completed"
FAILED == "failed"
BLOCKED == "blocked"
TaskStatus == {PENDING, IN_PROGRESS, COMPLETED, FAILED, BLOCKED}

LOW == "low"
MEDIUM == "medium"
HIGH == "high"
CRITICAL == "critical"
RiskLevel == {LOW, MEDIUM, HIGH, CRITICAL}

\* Python's None, for a field that otherwise holds a string
None == "None"

\* Python's None, for a field that otherwise holds an ExecutionPlan
NoPlan == <<>>

\* no Action yet
NoAction == <<>>
NoApproval == <<>>
NoError == <<>>
NoResult == <<>>

(***************************************************************************)
(* Input universes.  Step ids are opaque tokens (uuid4 strings in the      *)
(* code); a dependency is any string, so it may name the id of a step of   *)
(* the list, the step itself, or an id no step of the list carries.        *)
(***************************************************************************)
StepIds == {"a", "b", "c"}

\* dependency lists: every duplicate-free list over the ids in a fixed
\* order, plus two lists that repeat or reorder entries (len() counts them)
DepLists ==
  { <<>>, <<"a">>, <<"b">>, <<"c">>, <<"a", "b">>, <<"a", "c">>, <<"b", "c">>,
    <<"a", "b", "c">>, <<"a", "a">>, <<"b", "a">> }

\* TaskStep as prioritize_steps reads it: id and dependencies
SchedStep == [id : StepIds, dependencies : DepLists]

SeqsUpTo(S, n) == UNION { [1..k -> S] : k \in 0..n }

Range(s) == { s[i] : i \in 1..Len(s) }

\* ids of the steps of a plan, by position (fresh uuid4 strings in the code)
PlanIds == <<"a", "b", "c", "d", "e">>

\* TaskStep(id=..., dependencies=...): the other fields take their defaults
NewStep(id, deps) ==
  [id |-> id, description |-> "task", status |-> PENDING, dependencies |-> deps,
   tool_name |-> None, parameters |-> <<>>, result |-> None, error |-> None]

(***************************************************************************)
(* Python str operations the code relies on                                *)
(***************************************************************************)
\* sub in s
StrContains(sub, s) ==
  \E i \in 1..(Len(s) - Len(sub) + 1) : SubSeq(s, i, i + Len(sub) - 1) = sub

UpperCase == "ABCDEFGHIJKLMNOPQRSTUVWXYZ"
LowerCase == "abcdefghijklmnopqrstuvwxyz"

\* upper-case letter |-> its lower-case letter
LowerMap ==
  [c \in {SubSeq(UpperCase, i, i) : i \in 1..Len(UpperCase)} |->
     LET i == CHOOSE k \in 1..Len(UpperCase) : SubSeq(UpperCase, k, k) = c
     IN  SubSeq(LowerCase, i, i)]

LowerChar(c) == IF c \in DOMAIN LowerMap THEN LowerMap[c] ELSE c

\* s.lower()
RECURSIVE Lower(_)
Lower(s) ==
  IF s = "" THEN ""
  ELSE IF Len(s) = 1 THEN LowerChar(s)
  ELSE Lower(SubSeq(s, 1, Len(s) \div 2)) \o Lower(SubSeq(s, Len(s) \div 2 + 1, Len(s)))

Whitespace == {" ", "\t", "\n", "\r", "\f"}

RECURSIVE LStrip(_)
LStrip(s) ==
  IF s # "" /\ SubSeq(s, 1, 1) \in Whitespace THEN LStrip(SubSeq(s, 2, Len(s))) ELSE s

RECURSIVE RStrip(_)
RStrip(s) ==
  IF s # "" /\ SubSeq(s, Len(s), Len(s)) \in Whitespace
  THEN RStrip(SubSeq(s, 1, Len(s) - 1))
  ELSE s

\* s.strip()
Strip(s) == RStrip(LStrip(s))

(***************************************************************************)
(* ToolSelector (core/selector.py)                                         *)
(***************************************************************************)
\* s.replace(old, new) for a one-character old
RECURSIVE ReplaceChar(_, _, _)
ReplaceChar(s, old, new) ==
  IF s = "" THEN ""
  ELSE (IF SubSeq(s, 1, 1) = old THEN new ELSE SubSeq(s, 1, 1))
         \o ReplaceChar(SubSeq(s, 2, Len(s)), old, new)

\* s.split(): the maximal runs of non-whitespace characters, in order
RECURSIVE SplitFrom(_, _)
SplitFrom(s, word) ==
  IF s = "" THEN (IF word = "" THEN <<>> ELSE <<word>>)
  ELSE IF SubSeq(s, 1, 1) \in Whitespace
       THEN (IF word = "" THEN <<>> ELSE <<word>>) \o SplitFrom(SubSeq(s, 2, Len(s)), "")
       ELSE SplitFrom(SubSeq(s, 2, Len(s)), word \o SubSeq(s, 1, 1))

Split(s) == SplitFrom(s, "")

\* Tool(name, description, ..., required_params, risk_level, requires_confirmation)
NewTool(name, description, parameters, required_params, risk, confirm) ==
  [name |-> name, description |-> description, parameters |-> parameters,
   required_params |-> required_params, risk_level |-> risk,
   requires_confirmation |-> confirm]

\* a dict literal with string keys and values
Dict2(k1, v1, k2, v2) == [k \in {k1, k2} |-> IF k = k1 THEN v1 ELSE v2]
Dict3(k1, v1, k2, v2, k3, v3) ==
  [k \in {k1, k2, k3} |-> IF k = k1 THEN v1 ELSE IF k = k2 THEN v2 ELSE v3]

\* _initialize_default_tools: the tools in the order they enter self._tools
default_tools ==
  << NewTool("execute_shell", "Execute a shell command",
             Dict3("command", "str", "timeout", "int", "cwd", "str"),
             <<"command">>, MEDIUM, FALSE),
     NewTool("read_file", "Read contents of a file",
             Dict2("path", "str", "encoding", "str"), <<"path">>, LOW, FALSE),
     NewTool("write_file", "Write contents to a file",
             Dict3("path", "str", "content", "str", "encoding", "str"),
             <<"path", "content">>, MEDIUM, FALSE),
     NewTool("search_code", "Search for code patterns in codebase",
             Dict3("query", "str", "file_pattern", "str", "path", "str"),
             <<"query">>, LOW, FALSE),
     NewTool("git_commit", "Commit changes to git",
             Dict2("message", "str", "files", "list"), <<"message">>, MEDIUM, FALSE),
     NewTool("git_push", "Push commits to remote",
             Dict2("remote", "str", "branch", "str"), <<>>, HIGH, TRUE),
     NewTool("search_web", "Search the web for information",
             Dict2("query", "str", "num_results", "int"), <<"query">>, LOW, FALSE),
     NewTool("generate_code", "Generate code from specification",
             Dict2("spec", "str", "language", "str"), <<"spec">>, LOW, FALSE) >>

\* the name of "no tool"
NoTool == [name |-> None]

\* the score select_tool gives a tool for a lower-cased task description
ToolScore(tl, task_lower) ==
  LET words == Split(ReplaceChar(Lower(tl.name), "_", " ")) \o Split(Lower(tl.description))
  IN  Cardinality({ i \in 1..Len(words) : StrContains(words[i], task_lower) })
        + (IF StrContains(Lower(tl.name), task_lower) THEN 5 ELSE 0)

\* select_tool(context, task_description) over the tools of self._tools:
\* max(scores, key=scores.get) is the first tool, in insertion order, of
\* the highest score; a highest score of 0 selects nothing
select_tool(table, task_description) ==
  IF table = <<>> THEN NoTool
  ELSE LET task_lower == Lower(task_description)
           scores == { <<i, ToolScore(table[i], task_lower)>> : i \in 1..Len(table) }
           best == CHOOSE b \in scores :
                     \A s \in scores : s[2] < b[2] \/ (s[2] = b[2] /\ b[1] <= s[1])
       IN  IF best[2] > 0 THEN table[best[1]] ELSE NoTool

\* select_tool(context, task_description, available_tools) (core/selector.py:
\* 126-176): an empty or absent available_tools stands for the registry; the
\* dict scores is keyed by tool name, a name met again keeping its place and
\* taking the later score; max takes the first name of the highest score; a
\* positive score returns self._tools[name], a KeyError when the registry has
\* no such name
select_tool_among(table, task_description, available_tools) ==
  LET candidates == IF available_tools # <<>> THEN available_tools ELSE table
      task_lower == Lower(task_description)
      first(n) == CHOOSE i \in 1..Len(candidates) :
                    /\ candidates[i].name = n
                    /\ \A j \in 1..(i - 1) : candidates[j].name # n
      last(n) == CHOOSE i \in 1..Len(candidates) :
                   /\ candidates[i].name = n
                   /\ \A j \in (i + 1)..Len(candidates) : candidates[j].name # n
      scores == { <<first(candidates[i].name), candidates[i].name,
                    ToolScore(candidates[last(candidates[i].name)], task_lower)>> :
                  i \in 1..Len(candidates) }
  IN  IF candidates = <<>> THEN [tool |-> NoTool, raised |-> None]
      ELSE LET best == CHOOSE b \in scores :
                         \A s \in scores : s[3] < b[3] \/ (s[3] = b[3] /\ b[1] <= s[1])
               registered == { i \in 1..Len(table) : table[i].name = best[2] }
           IN  IF best[3] > 0
               THEN IF registered = {} THEN [tool |-> NoTool, raised |-> "KeyError"]
                    ELSE [tool |-> table[CHOOSE i \in registered : TRUE], raised |-> None]
               ELSE [tool |-> NoTool, raised |-> None]

\* isinstance(value, str | int | list) for a value of the Python type ty: bool
\* is a subclass of int, so isinstance(True, int) holds
IsInstance(ty, expected) ==
  \/ ty = expected
  \/ ty = "bool" /\ expected = "int"

\* the messages validate_tool_params appends for the required parameters
RequiredErrors(tl, params) ==
  { "Missing required parameter: " \o tl.required_params[k] :
      k \in { j \in 1..Len(tl.required_params) :
                tl.required_params[j] \notin DOMAIN params } }
  \cup
  { "Required parameter '" \o tl.required_params[k] \o "' is None" :
      k \in { j \in 1..Len(tl.required_params) :
                /\ tl.required_params[j] \in DOMAIN params
                /\ params[tl.required_params[j]].type = "NoneType" } }

\* the word the type message uses for a declared type
TypeWord(expected) ==
  IF expected = "str" THEN "string" ELSE IF expected = "int" THEN "integer" ELSE "list"

\* validate_tool_params with the type check run on the required parameters
\* only
validate_tool_params_required_only(tl, params) ==
  LET errors == RequiredErrors(tl, params) \cup
        { "Parameter '" \o n \o "' should be " \o TypeWord(tl.parameters[n]) :
            n \in { m \in DOMAIN params \cap DOMAIN tl.parameters :
                      /\ m \in Range(tl.required_params)
                      /\ tl.parameters[m] \in {"str", "int", "list"}
                      /\ ~IsInstance(params[m].type, tl.parameters[m]) } }
  IN  [valid |-> Cardinality(errors) = 0, errors |-> errors]

\* validate_tool_params(tool, params) (core/selector.py:178-209): the messages
\* of the list errors (their order left out) and whether there is none; a
\* parameter value is a record of its Python type and its value
validate_tool_params(tl, params) ==
  LET errors == RequiredErrors(tl, params) \cup
        { "Parameter '" \o n \o "' should be " \o TypeWord(tl.parameters[n]) :
            n \in { m \in DOMAIN params \cap DOMAIN tl.parameters :
                      /\ tl.parameters[m] \in {"str", "int", "list"}
                      /\ ~IsInstance(params[m].type, tl.parameters[m]) } }
  IN  [valid |-> Cardinality(errors) = 0, errors |-> errors]

\* register_tool(tool): self._tools[tool.name] = tool keeps the position of
\* a name already registered and puts a new name last
register_tool(table, new_tool) ==
  IF \E i \in 1..Len(table) : table[i].name = new_tool.name
  THEN [i \in 1..Len(table) |-> IF table[i].name = new_tool.name THEN new_tool ELSE table[i]]
  ELSE Append(table, new_tool)

VARIABLES
  \* Planner.prioritize_steps
  steps,      \* the argument
  ordered,    \* the returned list (None before the call)
  prio_pc,    \* "call" | "returned" | "raised"
  \* Planner.update_plan_status
  plan,       \* the ExecutionPlan handed to update_plan_status
  twin,       \* a second ExecutionPlan with the same steps, built with another status
  plan_pc,    \* "built" | "edited" | "updated"
  \* OmniBuilderAgent: self.state (AgentState)
  is_running,
  current_task,
  current_step,
  conversation_history,
  execution_plan,
  \* OmniBuilderAgent.run: the call
  run_pc,     \* "idle" | "planning" | "loop" | "executing" | "summary" | "returned" | "raised"
  step_index, \* position of the for loop in plan.steps
  results,    \* the local list results
  run_return, \* the returned overview (None before the return)
  escaped,    \* the exception that left run() (None when none did)
  started,    \* history: ids of the steps in the order they were marked IN_PROGRESS
  \* OmniBuilderAgent._execute_step: the call awaited by run
  exec_pc,    \* "none" | "select" | "confirm" | "cancelled" | "reason" | "handler"
  tool,       \* the selected Tool (NoTool when none was selected)
  handler_calls, \* history: the concrete handlers invoked, in order
  \* OmniBuilderAgent: self.tool_selector._tools, in insertion order
  tools,
  \* OmniBuilderAgent: self.stm (WorkingMemoryManager), self.ltm
  stm_outputs,
  stm_errors,
  stm_context_items,
  ltm_solutions,
  \* SafetyPrompt
  auto_approve_low_risk,
  audit_log,         \* AuditLog._entries
  \* SafetyPrompt.confirm_action: the call
  confirm_pc,        \* "idle" | "callback" | "prompt" | "returned" | "raised"
  action,            \* the argument action (NoAction before the first call)
  risk_level,        \* the local risk_level (None before the first call)
  callback_supplied, \* whether the argument callback was given
  confirm_result,    \* the returned value
  confirm_calls,     \* history: confirm_action calls made so far
  callback_calls,    \* history: invocations of callback by the current call
  prompt_calls,      \* history: invocations of input() by the current call
  callback_reply,    \* history: what callback returned
  prompt_reply,      \* history: what input() returned
  audit_at_call,     \* history: audit_log when the current call began
  \* SafetyPrompt.require_approval, log_sensitive_action, emergency_stop
  api_pc,            \* "idle" | "batch_prompt" | "approval_returned" | "logged" | "stopped" | "raised"
  batch,             \* the argument actions of require_approval
  approval_result,   \* the returned ApprovalResult (NoApproval before the return)
  other_calls,       \* history: calls of these three methods made so far
  \* SafetyPrompt.classify_risk: a call of its own
  classify_arg,      \* the argument action
  classify_ret,      \* the returned RiskLevel (None before the return)
  \* SelfCorrector.retry_with_backoff
  retry_pc,
  retry_config,  \* the delays of the argument config: initial_delay, max_delay, exponential_base          \* "idle" | "attempt" | "sleeping" | "returned" | "raised"
  max_retries,       \* config.max_retries
  attempt,           \* the loop variable
  delay,             \* the local delay, in seconds
  last_error,        \* the local last_error (NoError for None)
  action_history,    \* self._action_history
  retry_raised,      \* the exception that left the call (NoError when none did)
  invocations,       \* history: the exception each invocation of the action raised (type None: it returned)
  sleeps,            \* history: the delays slept, in order
  history_at_call,   \* history: self._action_history when the call began
  \* GoalDecomposer.decompose_task
  llm_client,        \* "absent" | "unconfigured" | "configured"
  goal_arg,          \* the argument goal
  decompose_pc,      \* "idle" | "awaiting" | "returned" | "raised"
  llm_response,      \* what llm_client.complete returned
  decomposed,        \* the returned list of steps
  decompose_raised,
  \* ToolSelector.validate_tool_params: the call
  validate_tool,   \* the argument tool
  validate_params, \* the argument params
  validate_ret,    \* the returned ValidationResult (NoResult before the return)
  \* TerminalExecutionAgent
  safe_mode,
  \* TerminalExecutionAgent.execute_shell: the call
  shell_pc,      \* "idle" | "spawning" | "communicating" | "returned"
  shell_command, \* the argument command (None before the first call)
  shell_timeout, \* the argument timeout
  shell_result,  \* the returned ExecutionResult (NoResult before the return)
  processes,     \* the subprocesses started, in order: the call and whether it still runs
  shell_calls,   \* history: the number of execute_shell calls made
  \* WorkingMemoryManager: the maxlen of its three deques
  stm_max_items,
  stm_max_outputs,
  stm_max_errors,
  all_outputs,   \* history: every Output handed to add_output on the manager itself
  all_errors,    \* history: every Error handed to add_error on the manager itself
  \* ToolSelector.select_tool: a call made with the argument available_tools
  select_task,      \* the argument task_description
  select_given,     \* whether available_tools was given
  select_available, \* the argument available_tools (empty when not given)
  select_ret,       \* what the call returned or raised (NoResult before)
  \* GoalDecomposer.estimate_complexity: the call
  complexity_task,  \* the argument task
  complexity_ret,   \* what the call returned or raised (NoResult before)
  \* OmniBuilderAgent.run: calls on one agent that overlap at their awaits
  run_calls,        \* per call: its position, goal, plan, loop index and results
  plan_owner        \* the call whose plan self.state.execution_plan refers to (0: none)   \* the type of the exception that left the call

prio_vars == <<steps, ordered, prio_pc>>
status_vars == <<plan, twin, plan_pc>>
agent_state == <<is_running, current_task, current_step, conversation_history, execution_plan>>
run_locals == <<run_pc, step_index, results, run_return, escaped, started>>
memory_vars == <<stm_outputs, stm_errors, stm_context_items, ltm_solutions>>
exec_vars == <<exec_pc, tool, handler_calls>>
run_vars == <<agent_state, run_locals, memory_vars, exec_vars, tools>>
safety_state == <<auto_approve_low_risk, audit_log>>
confirm_locals == <<confirm_pc, action, risk_level, callback_supplied, confirm_result,
                    confirm_calls>>
confirm_history == <<callback_calls, prompt_calls, callback_reply, prompt_reply, audit_at_call>>
api_locals == <<api_pc, batch, approval_result, other_calls>>
classify_vars == <<classify_arg, classify_ret>>
safety_vars == <<safety_state, confirm_locals, confirm_history, api_locals, classify_vars>>
retry_vars ==
  <<retry_pc, retry_config, max_retries, attempt, delay, last_error, action_history, retry_raised,
    invocations, sleeps, history_at_call>>
decompose_vars ==
  <<llm_client, goal_arg, decompose_pc, llm_response, decomposed, decompose_raised>>
overlap_vars == <<run_calls, plan_owner>>
complexity_vars == <<complexity_task, complexity_ret>>
select_vars == <<select_task, select_given, select_available, select_ret>>
stm_config == <<stm_max_items, stm_max_outputs, stm_max_errors, all_outputs, all_errors>>
shell_vars ==
  <<safe_mode, shell_pc, shell_command, shell_timeout, shell_result, processes, shell_calls>>
validate_vars == <<validate_tool, validate_params, validate_ret>>
vars == <<prio_vars, overlap_vars, complexity_vars, select_vars, stm_config, shell_vars, validate_vars, status_vars, run_vars, safety_vars, retry_vars, decompose_vars>>

(***************************************************************************)
(* Planner.prioritize_steps (core/planner.py:188-223)                      *)
(***************************************************************************)
\* mutation of DepsSatisfied: any() written for all()
DepsSatisfiedAny(s, completed_ids) ==
  \/ Len(s.dependencies) = 0
  \/ \E k \in 1..Len(s.dependencies) : s.dependencies[k] \in completed_ids

\* all(dep in completed_ids for dep in s.dependencies)
DepsSatisfied(s, completed_ids) ==
  \A k \in 1..Len(s.dependencies) : s.dependencies[k] \in completed_ids

\* ready = [s for s in remaining if all(...)]
ReadySteps(remaining, completed_ids) ==
  SelectSeq(remaining, LAMBDA s : DepsSatisfied(s, completed_ids))

\* ready.sort(key=lambda s: len(s.dependencies)): list.sort is stable, so the
\* result is, for each key in ascending order, the steps with that key in
\* their order in ready
RECURSIVE SortFrom(_, _, _)
SortFrom(ready, k, top) ==
  IF k > top THEN <<>>
  ELSE SelectSeq(ready, LAMBDA s : Len(s.dependencies) = k) \o SortFrom(ready, k + 1, top)

MaxDepCount(ready) ==
  LET ns == { Len(ready[i].dependencies) : i \in 1..Len(ready) }
  IN  IF ns = {} THEN 0 ELSE CHOOSE n \in ns : \A m \in ns : m <= n

SortByDepCount(ready) == SortFrom(ready, 0, MaxDepCount(ready))

\* list.remove(x): drops the first element equal to x (TaskStep is a pydantic
\* model: == compares field values); ValueError when there is none
Contains(s, x) == \E i \in 1..Len(s) : s[i] = x

FirstIndex(s, x) == CHOOSE i \in 1..Len(s) : s[i] = x /\ \A j \in 1..(i - 1) : s[j] # x

\* mutation of ListRemove: drops every element equal to x, not the first one
ListRemoveAll(s, x) == SelectSeq(s, LAMBDA y : y # x)

ListRemove(s, x) ==
  LET i == FirstIndex(s, x)
  IN  SubSeq(s, 1, i - 1) \o SubSeq(s, i + 1, Len(s))

\* the for loop over ready: append to ordered, add the id, remove from remaining
RECURSIVE TakeReady(_, _)
TakeReady(loop, ready) ==
  IF ready = <<>> \/ loop.raised THEN loop
  ELSE LET step == Head(ready)
       IN  IF ~Contains(loop.remaining, step)
           THEN [loop EXCEPT !.ordered = Append(@, step),
                             !.completed_ids = @ \cup {step.id},
                             !.raised = TRUE]
           ELSE TakeReady([loop EXCEPT !.ordered = Append(@, step),
                                       !.completed_ids = @ \cup {step.id},
                                       !.remaining = ListRemove(@, step)],
                          Tail(ready))

\* the while loop
RECURSIVE PrioLoop(_)
PrioLoop(loop) ==
  IF loop.remaining = <<>> \/ loop.raised THEN loop
  ELSE LET ready == ReadySteps(loop.remaining, loop.completed_ids)
       IN  IF ready = <<>>
           THEN [loop EXCEPT !.ordered = @ \o loop.remaining]
           ELSE PrioLoop(TakeReady(loop, SortByDepCount(ready)))

\* the call: [raised |-> a ValueError escaped, ordered |-> the returned list]
prioritize_steps(ss) ==
  PrioLoop([ordered |-> <<>>, remaining |-> ss, completed_ids |-> {}, raised |-> FALSE])

PrioIdle ==
  /\ steps = <<>>
  /\ ordered = None
  /\ prio_pc = "call"

StatusIdle ==
  /\ plan = NoPlan
  /\ twin = NoPlan
  /\ plan_pc = "built"

\* OmniBuilderAgent.__init__: AgentState(), WorkingMemoryManager(), the
\* long-term memory with no solution stored
AgentConstructed ==
  /\ is_running = FALSE
  /\ current_task = None
  /\ current_step = None
  /\ conversation_history = <<>>
  /\ execution_plan = NoPlan
  /\ run_pc = "idle"
  /\ step_index = 0
  /\ results = <<>>
  /\ run_return = None
  /\ escaped = None
  /\ started = <<>>
  /\ exec_pc = "none"
  /\ tool = NoTool
  /\ handler_calls = <<>>
  /\ tools = default_tools
  /\ stm_outputs = <<>>
  /\ stm_errors = <<>>
  /\ stm_context_items = <<>>
  /\ ltm_solutions = <<>>

\* SafetyPrompt.__init__ (environment/safety.py:82-85) with the default
\* auto_approve_low_risk=True, as OmniBuilderAgent builds it (agent.py:134)
SafetyConstructed ==
  /\ audit_log = <<>>
  /\ confirm_pc = "idle"
  /\ action = NoAction
  /\ risk_level = None
  /\ callback_supplied = FALSE
  /\ confirm_result = FALSE
  /\ confirm_calls = 0
  /\ callback_calls = 0
  /\ prompt_calls = 0
  /\ callback_reply = FALSE
  /\ prompt_reply = ""
  /\ audit_at_call = <<>>
  /\ api_pc = "idle"
  /\ batch = <<>>
  /\ approval_result = NoApproval
  /\ other_calls = 0
  /\ classify_arg = NoAction
  /\ classify_ret = None

SafetyIdle ==
  /\ auto_approve_low_risk = TRUE
  /\ SafetyConstructed

\* SelfCorrector.__init__ (core/error_handler.py:255-257)
\* RetryConfig defaults (core/error_handler.py:34-39)
initial_delay == 1
max_delay == 30
exponential_base == 2

\* RetryConfig(max_retries, initial_delay, max_delay, exponential_base)
NewRetryConfig(initial, maximum, base) ==
  [initial_delay |-> initial, max_delay |-> maximum, exponential_base |-> base]

RetryIdle ==
  /\ retry_pc = "idle"
  /\ retry_config = NewRetryConfig(initial_delay, max_delay, exponential_base)
  /\ max_retries = 0
  /\ attempt = 0
  /\ delay = 0
  /\ last_error = NoError
  /\ action_history = <<>>
  /\ retry_raised = NoError
  /\ invocations = <<>>
  /\ sleeps = <<>>
  /\ history_at_call = <<>>

\* no decompose_task call yet, on the GoalDecomposer the agent builds with its
\* LLMClient (agent.py:119)
DecomposeNotCalled ==
  /\ goal_arg = None
  /\ decompose_pc = "idle"
  /\ llm_response = None
  /\ decomposed = <<>>
  /\ decompose_raised = None

DecomposeIdle ==
  /\ llm_client = "unconfigured"
  /\ DecomposeNotCalled

\* no validate_tool_params call
ValidateIdle ==
  /\ validate_tool = NoTool
  /\ validate_params = <<>>
  /\ validate_ret = NoResult

\* TerminalExecutionAgent() (environment/terminal.py:36-48), no call made
ShellIdle ==
  /\ safe_mode = TRUE
  /\ shell_pc = "idle"
  /\ shell_command = None
  /\ shell_timeout = 0
  /\ shell_result = NoResult
  /\ processes = <<>>
  /\ shell_calls = 0

\* WorkingMemoryManager.__init__: the default sizes
max_items == 100
max_outputs == 50
max_errors == 20

\* WorkingMemoryManager() (core/memory_stm.py:66-76), nothing added to it itself
WorkingMemoryDefaults ==
  /\ stm_max_items = max_items
  /\ stm_max_outputs = max_outputs
  /\ stm_max_errors = max_errors
  /\ all_outputs = <<>>
  /\ all_errors = <<>>

\* no select_tool call with available_tools
SelectIdle ==
  /\ select_task = None
  /\ select_given = FALSE
  /\ select_available = <<>>
  /\ select_ret = NoResult

\* no estimate_complexity call
ComplexityIdle ==
  /\ complexity_task = None
  /\ complexity_ret = NoResult

\* a run() call not made yet
NotCalled == [pc |-> "idle", goal |-> None, plan |-> NoPlan, index |-> 0, results |-> <<>>]

\* no run() calls that overlap
NoOverlappingRuns ==
  /\ run_calls = [c \in 1..MaxOverlap |-> NotCalled]
  /\ plan_owner = 0

PrioInit ==
  /\ steps \in SeqsUpTo(SchedStep, MaxSteps)
  /\ ordered = None
  /\ prio_pc = "call"
  /\ StatusIdle
  /\ AgentConstructed
  /\ NoOverlappingRuns
  /\ ComplexityIdle
  /\ SelectIdle
  /\ WorkingMemoryDefaults
  /\ ShellIdle
  /\ ValidateIdle
  /\ RetryIdle
  /\ DecomposeIdle
  /\ SafetyIdle

PrioritizeSteps ==
  /\ prio_pc = "call"
  /\ LET r == prioritize_steps(steps)
     IN  /\ prio_pc' = IF r.raised THEN "raised" ELSE "returned"
         /\ ordered' = IF r.raised THEN None ELSE r.ordered
  /\ UNCHANGED <<steps, status_vars, overlap_vars, complexity_vars, select_vars, stm_config, shell_vars, validate_vars, retry_vars, decompose_vars, run_vars, safety_vars>>

SpecPrio == PrioInit /\ [][PrioritizeSteps]_vars

(***************************************************************************)
(* Planner.update_plan_status (core/planner.py:225-238)                    *)
(***************************************************************************)
\* statuses = [step.status for step in plan.steps]
StepStatuses(p) == [i \in 1..Len(p.steps) |-> p.steps[i].status]

AllAre(statuses, s) == \A i \in 1..Len(statuses) : statuses[i] = s

AnyIs(statuses, s) == \E i \in 1..Len(statuses) : statuses[i] = s

\* mutation of update_plan_status: the in-progress test stands before the
\* failed test
update_plan_status_swapped(p) ==
  LET statuses == StepStatuses(p)
  IN  IF AllAre(statuses, COMPLETED) THEN [p EXCEPT !.status = COMPLETED]
      ELSE IF AnyIs(statuses, IN_PROGRESS) THEN [p EXCEPT !.status = IN_PROGRESS]
      ELSE IF AnyIs(statuses, FAILED) THEN [p EXCEPT !.status = FAILED]
      ELSE IF AnyIs(statuses, BLOCKED) THEN [p EXCEPT !.status = BLOCKED]
      ELSE p

\* the if/elif chain has no else: when no branch applies plan.status is left
\* as it was
update_plan_status(p) ==
  LET statuses == StepStatuses(p)
  IN  IF AllAre(statuses, COMPLETED) THEN [p EXCEPT !.status = COMPLETED]
      ELSE IF AnyIs(statuses, FAILED) THEN [p EXCEPT !.status = FAILED]
      ELSE IF AnyIs(statuses, IN_PROGRESS) THEN [p EXCEPT !.status = IN_PROGRESS]
      ELSE IF AnyIs(statuses, BLOCKED) THEN [p EXCEPT !.status = BLOCKED]
      ELSE p

\* ExecutionPlan(id=..., goal=..., steps=steps[, status=...]): steps are
\* TaskSteps built with any status (tests/core/test_planner.py:114-123); the
\* plan's status defaults to PENDING, the twin is built with any status
StatusInit ==
  /\ \E n \in 0..MaxSteps : \E sts \in [1..n -> TaskStatus] :
        LET ss == [i \in 1..n |-> [NewStep(PlanIds[i], <<>>) EXCEPT !.status = sts[i]]]
        IN  /\ plan = [steps |-> ss, status |-> PENDING]
            /\ \E s0 \in TaskStatus : twin = [steps |-> ss, status |-> s0]
  /\ plan_pc = "built"
  /\ PrioIdle
  /\ AgentConstructed
  /\ NoOverlappingRuns
  /\ ComplexityIdle
  /\ SelectIdle
  /\ WorkingMemoryDefaults
  /\ ShellIdle
  /\ ValidateIdle
  /\ RetryIdle
  /\ DecomposeIdle
  /\ SafetyIdle

\* the caller sets a step's status (as OmniBuilderAgent.run does, agent.py:178-194)
SetStepStatus ==
  /\ \E i \in 1..Len(plan.steps) : \E s \in TaskStatus :
        /\ plan.steps[i].status # s
        /\ plan' = [plan EXCEPT !.steps[i].status = s]
        /\ twin' = [twin EXCEPT !.steps[i].status = s]
  /\ plan_pc' = "edited"
  /\ UNCHANGED <<prio_vars, overlap_vars, complexity_vars, select_vars, stm_config, shell_vars, validate_vars, retry_vars, decompose_vars, run_vars, safety_vars>>

UpdatePlanStatus ==
  /\ plan' = update_plan_status(plan)
  /\ twin' = update_plan_status(twin)
  /\ plan_pc' = "updated"
  /\ UNCHANGED <<prio_vars, overlap_vars, complexity_vars, select_vars, stm_config, shell_vars, validate_vars, retry_vars, decompose_vars, run_vars, safety_vars>>

StatusNext == SetStepStatus \/ UpdatePlanStatus

SpecStatus == StatusInit /\ [][StatusNext]_vars

(***************************************************************************)
(* ErrorHandler.generate_fix (core/error_handler.py:129-220)               *)
(***************************************************************************)
\* the exceptions a step's handler raises: type(error).__name__ and str(error)
StepErrors ==
  { [type |-> "FileNotFoundError", message |-> "No such file: cfg"],
    [type |-> "RuntimeError", message |-> "Timeout waiting"] }

_generate_fix_suggestions(error_type, message) ==
  IF StrContains("FileNotFoundError", error_type)
  THEN << "Check if the file path is correct",
          "Ensure the file exists before accessing",
          "Create the file or directory if needed" >>
  ELSE IF StrContains("PermissionError", error_type)
  THEN << "Check file/directory permissions",
          "Run with appropriate privileges",
          "Verify ownership of the resource" >>
  ELSE IF StrContains("ConnectionError", error_type) \/ StrContains("Timeout", message)
  THEN << "Check network connectivity",
          "Verify the service is running",
          "Increase timeout value",
          "Retry the operation" >>
  ELSE IF StrContains("ImportError", error_type) \/ StrContains("ModuleNotFoundError", error_type)
  THEN << "Install the missing package",
          "Check the import statement",
          "Verify virtual environment is activated" >>
  ELSE IF StrContains("SyntaxError", error_type)
  THEN << "Check for missing brackets, quotes, or colons",
          "Verify indentation is correct",
          "Review the syntax of the statement" >>
  ELSE IF StrContains("TypeError", error_type)
  THEN << "Check the types of variables",
          "Verify function arguments",
          "Add type conversion if needed" >>
  ELSE << "Review the " \o error_type \o " documentation",
          "Check the error message for details",
          "Add error handling around the operation" >>

\* FixPlan.steps: the suggestions, then the verification step
generate_fix(e) ==
  Append(_generate_fix_suggestions(e.type, e.message), "Verify the fix resolved the issue")

(***************************************************************************)
(* WorkingMemoryManager (core/memory_stm.py:66-123)                        *)
(***************************************************************************)
\* a deque whose append drops the new entry when it is full
DequeAppendKeepOldest(d, x, maxlen) ==
  IF Len(d) >= maxlen THEN d ELSE Append(d, x)

\* collections.deque(maxlen=n).append(x): the oldest entry leaves a full deque
DequeAppend(d, x, maxlen) ==
  IF maxlen = 0 THEN <<>>
  ELSE IF Len(d) >= maxlen THEN Append(Tail(d), x)
  ELSE Append(d, x)

\* add_output(content, source): success defaults to True
add_output(content, source) ==
  /\ stm_outputs' = DequeAppend(stm_outputs,
                                [content |-> content, source |-> source, success |-> TRUE],
                                stm_max_outputs)
  /\ stm_context_items' = DequeAppend(stm_context_items,
                                      [content |-> content, item_type |-> "output"],
                                      stm_max_items)
  /\ UNCHANGED stm_errors

\* add_error(message, source): traceback defaults to None
add_error(message, source) ==
  /\ stm_errors' = DequeAppend(stm_errors,
                               [message |-> message, source |-> source, traceback |-> None],
                               stm_max_errors)
  /\ stm_context_items' = DequeAppend(stm_context_items,
                                      [content |-> message, item_type |-> "error"],
                                      stm_max_items)
  /\ UNCHANGED stm_outputs

(***************************************************************************)
(* OutputFormatter.generate_summary (core/formatter.py:166-218)            *)
(***************************************************************************)
\* mutation of generate_summary: the overall status tests the successes first
generate_summary_any_success(rs) ==
  IF rs = <<>>
  THEN [overview |-> "No results to summarize", status |-> "empty"]
  ELSE LET successes == Cardinality({ i \in 1..Len(rs) : rs[i].success })
           failures == Len(rs) - successes
       IN  [overview |-> "Completed " \o ToString(Len(rs)) \o " operations: "
                           \o ToString(successes) \o " succeeded, "
                           \o ToString(failures) \o " failed",
            status |-> IF successes = 0 THEN "failed"
                       ELSE IF successes > 0 THEN "success"
                       ELSE "partial"]

generate_summary(rs) ==
  IF rs = <<>>
  THEN [overview |-> "No results to summarize", status |-> "empty"]
  ELSE LET successes == Cardinality({ i \in 1..Len(rs) : rs[i].success })
           failures == Len(rs) - successes
       IN  [overview |-> "Completed " \o ToString(Len(rs)) \o " operations: "
                           \o ToString(successes) \o " succeeded, "
                           \o ToString(failures) \o " failed",
            status |-> IF failures = 0 THEN "success"
                       ELSE IF successes = 0 THEN "failed"
                       ELSE "partial"]

(***************************************************************************)
(* SafetyPrompt (environment/safety.py)                                    *)
(***************************************************************************)
_critical_patterns ==
  << "rm -rf /", "rm -rf /*", "mkfs.", "dd if=", ":(){:|:&};:", "chmod -R 777 /",
     "> /dev/sd", "git push --force origin main", "git push --force origin master",
     "DROP DATABASE", "DELETE FROM" >>

_high_risk_patterns ==
  << "rm -rf", "rm -r", "git push", "git reset --hard", "git checkout --", "sudo ",
     "pip install", "npm install -g", "docker rm", "kubectl delete" >>

_medium_risk_patterns ==
  << "mv ", "cp ", "git commit", "git merge", "chmod", "chown", "pip", "npm",
     "apt install" >>

\* any(pattern.lower() in check_string for pattern in patterns)
AnyPatternIn(patterns, check_string) ==
  \E k \in 1..Len(patterns) : StrContains(Lower(patterns[k]), check_string)

\* if action.command: a command that is None or empty is not used
CheckString(a) ==
  IF a.command # None /\ a.command # ""
  THEN Lower(a.command)
  ELSE Lower(a.name \o " " \o a.description)

\* mutation of classify_risk: the High patterns are tested before the
\* Critical ones
classify_risk_high_first(a) ==
  LET check_string == CheckString(a)
  IN  IF AnyPatternIn(_high_risk_patterns, check_string) THEN HIGH
      ELSE IF AnyPatternIn(_critical_patterns, check_string) THEN CRITICAL
      ELSE IF AnyPatternIn(_medium_risk_patterns, check_string) THEN MEDIUM
      ELSE LOW

\* SafetyPrompt.classify_risk (environment/safety.py:127-154)
classify_risk(a) ==
  LET check_string == CheckString(a)
  IN  IF AnyPatternIn(_critical_patterns, check_string) THEN CRITICAL
      ELSE IF AnyPatternIn(_high_risk_patterns, check_string) THEN HIGH
      ELSE IF AnyPatternIn(_medium_risk_patterns, check_string) THEN MEDIUM
      ELSE LOW

\* Action(name, description, command=None, target=None)
NewAction(name, description, command) ==
  [name |-> name, description |-> description, command |-> command, target |-> None]

\* the actions handed to the gate
Actions ==
  { NewAction("execute_shell", "clean the build tree", "rm -rf /tmp/build"),
    NewAction("execute_shell", "reset the schema", "DROP DATABASE app"),
    NewAction("execute_shell", "publish the branch", "git push origin dev"),
    NewAction("execute_shell", "list packages", "pip list"),
    NewAction("execute_shell", "list files", "ls -la"),
    NewAction("git_push", "Push commits to remote", None),
    NewAction("user_confirmation", "Delete from the users table", None) }

\* classify_risk over the actions handed to the gate
RiskOf == [a \in Actions |-> classify_risk(a)] @@ <<>>

\* what input() returns
PromptAnswers == {"yes", "y", "YES", "Y ", " yes", "Yes", "no", "", "yess"}

\* mutation of AuditLog_log: the entry is inserted at the front of the list
AuditLog_logFront(log, a, risk, approved, user_response) ==
  <<[action |-> a.name, description |-> a.description, command |-> a.command,
     target |-> a.target, risk_level |-> risk, approved |-> approved,
     user_response |-> user_response]>> \o log

\* AuditLog.log (environment/safety.py:52-72); the timestamp is left out
AuditLog_log(log, a, risk, approved, user_response) ==
  Append(log, [action |-> a.name, description |-> a.description, command |-> a.command,
               target |-> a.target, risk_level |-> risk, approved |-> approved,
               user_response |-> user_response])

\* mutation of AutoApproved: the risk level is not tested
AutoApprovedAnyRisk(risk) == auto_approve_low_risk

\* mutation of AutoApproved: the flag is read inverted
AutoApprovedInverted(risk) == risk = LOW /\ ~auto_approve_low_risk

\* environment/safety.py:174
AutoApproved(risk) == risk = LOW /\ auto_approve_low_risk

\* response in ["yes", "y"] after .strip().lower() (environment/safety.py:206-207)
PromptApproves(response) == Lower(Strip(response)) \in {"yes", "y"}

\* confirm_action(a, callback) is entered (environment/safety.py:171-206),
\* risk being classify_risk(a): the auto-approval returns at once; otherwise
\* the callback is awaited or input() is called
confirm_action_enter(a, risk, cb) ==
  /\ action' = a
  /\ risk_level' = risk
  /\ callback_supplied' = cb
  /\ audit_at_call' = audit_log
  /\ confirm_calls' = confirm_calls + 1
  /\ api_pc' = "idle"
  /\ IF AutoApproved(risk)
     THEN /\ audit_log' = AuditLog_log(audit_log, a, risk, TRUE, "auto-approved")
          /\ confirm_result' = TRUE
          /\ confirm_pc' = "returned"
          /\ callback_calls' = 0
          /\ prompt_calls' = 0
     ELSE /\ confirm_pc' = IF cb THEN "callback" ELSE "prompt"
          /\ callback_calls' = IF cb THEN 1 ELSE 0
          /\ prompt_calls' = IF cb THEN 0 ELSE 1
          /\ UNCHANGED <<audit_log, confirm_result>>
  /\ UNCHANGED <<auto_approve_low_risk, callback_reply, prompt_reply>>
  /\ UNCHANGED <<batch, approval_result, other_calls, classify_vars>>

\* confirm_action(action, callback) is called on the SafetyPrompt
ConfirmCall ==
  /\ confirm_pc \in {"idle", "returned", "raised"}
  /\ api_pc # "batch_prompt"
  /\ confirm_calls + other_calls < MaxSafetyCalls
  /\ \E a \in Actions : \E cb \in BOOLEAN : confirm_action_enter(a, RiskOf[a], cb)
  /\ UNCHANGED <<prio_vars, overlap_vars, complexity_vars, select_vars, stm_config, shell_vars, validate_vars, retry_vars, decompose_vars, status_vars, run_vars>>

\* environment/safety.py:203,209-210: the callback answers
CallbackReturns ==
  /\ confirm_pc = "callback"
  /\ \E approved \in BOOLEAN :
       /\ callback_reply' = approved
       /\ audit_log' = AuditLog_log(audit_log, action, risk_level, approved, None)
       /\ confirm_result' = approved
  /\ confirm_pc' = "returned"
  /\ UNCHANGED <<auto_approve_low_risk, action, risk_level, callback_supplied, confirm_calls>>
  /\ UNCHANGED <<callback_calls, prompt_calls, prompt_reply, audit_at_call>>
  /\ UNCHANGED <<api_locals, classify_vars>>
  /\ UNCHANGED <<prio_vars, overlap_vars, complexity_vars, select_vars, stm_config, shell_vars, validate_vars, retry_vars, decompose_vars, status_vars, run_vars>>

\* environment/safety.py:206-210: input() gave response
prompt_answered(response) ==
  LET approved == PromptApproves(response)
  IN  /\ prompt_reply' = response
      /\ audit_log' = AuditLog_log(audit_log, action, risk_level, approved, None)
      /\ confirm_result' = approved
      /\ confirm_pc' = "returned"
      /\ UNCHANGED <<auto_approve_low_risk, action, risk_level, callback_supplied, confirm_calls>>
      /\ UNCHANGED <<callback_calls, prompt_calls, callback_reply, audit_at_call>>
      /\ UNCHANGED <<api_locals, classify_vars>>

\* input() answers the prompt of a call made on the SafetyPrompt
PromptReturns ==
  /\ confirm_pc = "prompt"
  /\ \E response \in PromptAnswers : prompt_answered(response)
  /\ UNCHANGED <<prio_vars, overlap_vars, complexity_vars, select_vars, stm_config, shell_vars, validate_vars, retry_vars, decompose_vars, status_vars, run_vars>>

\* the callback raises, or input() raises (EOFError on a closed stdin): the
\* exception leaves confirm_action before anything is logged
consult_raised ==
  /\ confirm_pc' = "raised"
  /\ UNCHANGED <<safety_state, action, risk_level, callback_supplied, confirm_result,
                 confirm_calls>>
  /\ UNCHANGED <<confirm_history, api_locals, classify_vars>>

\* the callback or input() raises in a call made on the SafetyPrompt
ConsultRaises ==
  /\ confirm_pc \in {"callback", "prompt"}
  /\ consult_raised
  /\ UNCHANGED <<prio_vars, overlap_vars, complexity_vars, select_vars, stm_config, shell_vars, validate_vars, retry_vars, decompose_vars, status_vars, run_vars>>

\* list(RiskLevel).index(r) (environment/safety.py:227)
RiskIndex(r) == CASE r = LOW -> 0 [] r = MEDIUM -> 1 [] r = HIGH -> 2 [] r = CRITICAL -> 3

\* max(risk_levels, key=...) over a non-empty list
MaxRisk(risk_levels) ==
  CHOOSE r \in Range(risk_levels) : \A q \in Range(risk_levels) : RiskIndex(q) <= RiskIndex(r)

\* the lists of actions handed to require_approval
Batches ==
  { <<>>,
    << NewAction("execute_shell", "list files", "ls -la") >>,
    << NewAction("execute_shell", "list files", "ls -la"),
       NewAction("git_push", "Push commits to remote", None) >>,
    << NewAction("execute_shell", "list files", "ls -la"),
       NewAction("execute_shell", "list packages", "pip list") >>,
    << NewAction("execute_shell", "reset the schema", "DROP DATABASE app"),
       NewAction("execute_shell", "list files", "ls -la") >> }

\* for action in actions: self._audit_log.log(action, ..., approved, user_response);
\* the automatic batch path logs RiskLevel.LOW, the prompt path classify_risk(action)
RECURSIVE LogEach(_, _, _, _, _)
LogEach(log, acts, low, approved, user_response) ==
  IF acts = <<>> THEN log
  ELSE LogEach(AuditLog_log(log, Head(acts), IF low THEN LOW ELSE RiskOf[Head(acts)],
                            approved, user_response),
               Tail(acts), low, approved, user_response)

\* no call of the SafetyPrompt is in progress and one more may be made
SafetyCallable ==
  /\ confirm_pc \in {"idle", "returned", "raised"}
  /\ api_pc # "batch_prompt"
  /\ confirm_calls + other_calls < MaxSafetyCalls

\* a method other than confirm_action is entered: what every such entry
\* does to the SafetyPrompt
OtherCallEntered ==
  /\ other_calls' = other_calls + 1
  /\ audit_at_call' = audit_log
  /\ confirm_pc' = "idle"
  /\ UNCHANGED <<auto_approve_low_risk, action, risk_level, callback_supplied, confirm_result>>
  /\ UNCHANGED <<confirm_calls, callback_calls, prompt_calls, callback_reply, prompt_reply>>
  /\ UNCHANGED classify_vars

\* a method other than confirm_action is called on the SafetyPrompt
OtherCallBegins ==
  /\ SafetyCallable
  /\ OtherCallEntered
  /\ UNCHANGED <<prio_vars, overlap_vars, complexity_vars, select_vars, stm_config, shell_vars, validate_vars, retry_vars, decompose_vars, status_vars, run_vars>>

\* require_approval(actions) is called (environment/safety.py:222-239): an
\* empty list and an all-Low list under auto-approval return at once;
\* otherwise input() is called
RequireApprovalCall ==
  /\ OtherCallBegins
  /\ \E acts \in Batches :
       /\ batch' = acts
       /\ IF acts = <<>>
          THEN /\ approval_result' = [approved |-> TRUE, actions |-> <<>>, reason |-> None]
               /\ api_pc' = "approval_returned"
               /\ UNCHANGED audit_log
          ELSE LET risk_levels == [i \in 1..Len(acts) |-> RiskOf[acts[i]]]
               IN  IF MaxRisk(risk_levels) = LOW /\ auto_approve_low_risk
                   THEN /\ audit_log' = LogEach(audit_log, acts, TRUE, TRUE, "batch-auto-approved")
                        /\ approval_result' = [approved |-> TRUE, actions |-> acts, reason |-> None]
                        /\ api_pc' = "approval_returned"
                   ELSE /\ api_pc' = "batch_prompt"
                        /\ UNCHANGED <<audit_log, approval_result>>

\* environment/safety.py:239-250: input() answers the batch prompt
BatchPromptReturns ==
  /\ api_pc = "batch_prompt"
  /\ \E response \in PromptAnswers :
       LET approved == PromptApproves(response)
       IN  /\ prompt_reply' = response
           /\ audit_log' = LogEach(audit_log, batch, FALSE, approved, "batch")
           /\ approval_result' =
                [approved |-> approved, actions |-> batch,
                 reason |-> IF approved THEN "User batch approval" ELSE "User rejected"]
  /\ api_pc' = "approval_returned"
  /\ UNCHANGED <<auto_approve_low_risk, confirm_locals, batch, other_calls>>
  /\ UNCHANGED <<callback_calls, prompt_calls, callback_reply, audit_at_call>>
  /\ UNCHANGED <<prio_vars, overlap_vars, complexity_vars, select_vars, stm_config, shell_vars, validate_vars, retry_vars, decompose_vars, status_vars, run_vars, classify_vars>>

\* input() raises at the batch prompt (EOFError on a closed stdin): nothing
\* is logged
BatchPromptRaises ==
  /\ api_pc = "batch_prompt"
  /\ api_pc' = "raised"
  /\ UNCHANGED <<safety_state, confirm_locals, confirm_history, batch, approval_result, other_calls>>
  /\ UNCHANGED <<prio_vars, overlap_vars, complexity_vars, select_vars, stm_config, shell_vars, validate_vars, retry_vars, decompose_vars, status_vars, run_vars, classify_vars>>

\* log_sensitive_action(action) (environment/safety.py:252-260)
LogSensitiveAction ==
  /\ OtherCallBegins
  /\ \E a \in Actions :
       audit_log' = AuditLog_log(audit_log, a, RiskOf[a], TRUE, "logged-only")
  /\ api_pc' = "logged"
  /\ UNCHANGED <<batch, approval_result>>

\* the Action emergency_stop builds (environment/safety.py:281-284)
EmergencyAction == NewAction("emergency_stop", "Emergency stop activated by user", None)

\* emergency_stop() (environment/safety.py:270-287): the entry is logged and
\* SystemExit is raised
emergency_stop ==
  /\ OtherCallEntered
  /\ audit_log' = AuditLog_log(audit_log, EmergencyAction, CRITICAL, FALSE, "emergency")
  /\ api_pc' = "stopped"
  /\ UNCHANGED <<batch, approval_result>>

\* emergency_stop() is called on the SafetyPrompt
EmergencyStop ==
  /\ SafetyCallable
  /\ emergency_stop
  /\ UNCHANGED <<prio_vars, overlap_vars, complexity_vars, select_vars, stm_config, shell_vars, validate_vars, retry_vars, decompose_vars, status_vars, run_vars>>

\* SafetyPrompt(auto_approve_low_risk=...)
SafetyInit ==
  /\ auto_approve_low_risk \in BOOLEAN
  /\ SafetyConstructed
  /\ PrioIdle
  /\ StatusIdle
  /\ AgentConstructed
  /\ NoOverlappingRuns
  /\ ComplexityIdle
  /\ SelectIdle
  /\ WorkingMemoryDefaults
  /\ ShellIdle
  /\ ValidateIdle
  /\ RetryIdle
  /\ DecomposeIdle

SafetyNext ==
  \/ ConfirmCall
  \/ CallbackReturns
  \/ PromptReturns
  \/ ConsultRaises
  \/ RequireApprovalCall
  \/ BatchPromptReturns
  \/ BatchPromptRaises
  \/ LogSensitiveAction
  \/ EmergencyStop

SpecSafety == SafetyInit /\ [][SafetyNext]_vars

(***************************************************************************)
(* SafetyPrompt.classify_risk called on its own                            *)
(***************************************************************************)
\* action.command of the actions classified: None, empty, and commands that
\* hit no tier, one tier or several, in any case
Commands ==
  { None, "", " ", "ls -la", "escp",
    "rm -rf /", "RM -RF /tmp", "rm -rf build", "rm -r build", "sudo rm -rf /*",
    "git push origin dev", "git push --force origin main", "Git Push --Force Origin Master",
    "Git Commit -m x", "git merge dev", "git reset --hard", "git checkout -- .",
    "drop database app", "DELETE FROM users", "delete  from users",
    "chmod -R 777 /", "chmod -r 777 /srv", "chmod +x run.sh", "chown root f",
    "sudo apt install vim", "apt install vim", "pip install requests", "PIP list",
    "npm install -g yarn", "npm test", "mv a b", "cp a b", "mv", "echo x > /dev/sda",
    "dd if=/dev/zero of=f", "mkfs.ext4 /dev/sdb", "kubectl delete pod p", "docker rm box",
    ":(){:|:&};:" }

\* action.name and action.description of the actions classified
NamesAndDescriptions ==
  { <<"git_push", "Push commits to remote">>,
    <<"git push", "Publish">>,
    <<"user_confirmation", "Delete from the users table, then cp the dump">>,
    <<"read_file", "Read a file">> }

ClassifyInit ==
  /\ \E c \in Commands : \E nd \in NamesAndDescriptions :
       classify_arg = NewAction(nd[1], nd[2], c)
  /\ classify_ret = None
  /\ auto_approve_low_risk = TRUE
  /\ audit_log = <<>>
  /\ confirm_pc = "idle"
  /\ action = NoAction
  /\ risk_level = None
  /\ callback_supplied = FALSE
  /\ confirm_result = FALSE
  /\ confirm_calls = 0
  /\ callback_calls = 0
  /\ prompt_calls = 0
  /\ callback_reply = FALSE
  /\ prompt_reply = ""
  /\ audit_at_call = <<>>
  /\ api_pc = "idle"
  /\ batch = <<>>
  /\ approval_result = NoApproval
  /\ other_calls = 0
  /\ PrioIdle
  /\ StatusIdle
  /\ AgentConstructed
  /\ NoOverlappingRuns
  /\ ComplexityIdle
  /\ SelectIdle
  /\ WorkingMemoryDefaults
  /\ ShellIdle
  /\ ValidateIdle
  /\ RetryIdle
  /\ DecomposeIdle

ClassifyRisk ==
  /\ classify_ret = None
  /\ classify_ret' = classify_risk(classify_arg)
  /\ UNCHANGED <<classify_arg, safety_state, confirm_locals, confirm_history, api_locals>>
  /\ UNCHANGED <<prio_vars, overlap_vars, complexity_vars, select_vars, stm_config, shell_vars, validate_vars, retry_vars, decompose_vars, status_vars, run_vars>>

SpecClassify == ClassifyInit /\ [][ClassifyRisk]_vars

(***************************************************************************)
(* OmniBuilderAgent.run (agent.py:143-224)                                 *)
(***************************************************************************)
Goals == {"Fix typo"}

\* dependency lists of the first step of a plan: str(d) for whatever the LLM
\* listed (core/planner.py:86); the later steps list none
PlanDepLists == { <<>>, <<"b">> }

\* descriptions of the steps of a plan: one that selects no tool, one that
\* selects git_push and classifies High, one that selects write_file, one
\* that selects execute_shell and classifies Medium
StepDescriptions ==
  { "Fix typo", "git push the branch", "push commits upstream", "write file out",
    "run cp in a shell" }

\* the tools a caller registers before run(): execute_shell re-registered
\* with requires_confirmation=True
RegisterableTools ==
  { NewTool("execute_shell", "Execute a shell command",
            Dict3("command", "str", "timeout", "int", "cwd", "str"),
            <<"command">>, MEDIUM, TRUE) }

\* the tables of tools self._tools can hold when run() is called
ToolTables == {default_tools} \cup { register_tool(default_tools, x) : x \in RegisterableTools }

\* select_tool over the step descriptions, for each table of tools; @@ makes
\* the function an explicit table, computed once
SelectedTool ==
  [p \in ToolTables \X StepDescriptions |-> select_tool(p[1], p[2])] @@ <<>>

\* Action(name=tool.name, description=step.description,
\*        command=step.parameters.get("command")) (agent.py:242-246)
StepAction(tl, step) ==
  NewAction(tl.name, step.description,
            IF "command" \in DOMAIN step.parameters
            THEN step.parameters["command"].value ELSE None)

\* classify_risk over the actions _execute_step builds
StepRiskOf ==
  [a \in { NewAction(default_tools[i].name, d, None) :
             i \in 1..Len(default_tools), d \in StepDescriptions } |-> classify_risk(a)] @@ <<>>

\* what input() returns at the prompt of a step
StepPromptAnswers == {"y", "no"}

\* the tools _execute_step has a branch for (agent.py:253-283); every other
\* tool falls back to reasoning
ConcreteHandlers == {"execute_shell", "read_file", "write_file", "search_code", "generate_code"}

\* what the shell executor gives back: ExecutionResult(success, output, error)
ShellResults ==
  { [success |-> TRUE, output |-> "ok", error |-> None],
    [success |-> FALSE, output |-> "", error |-> "Command timed out after 30 seconds"] }

\* what the concrete handler of a tool, or the reasoning fallback, makes
\* _execute_step return, with whether the tool succeeded (agent.py:253-288)
HandlerOutcomes(name) ==
  CASE name = "execute_shell" ->
         { [succeeded |-> r.success, result |-> IF r.success THEN r.output ELSE r.error] :
             r \in ShellResults }
    [] name = "write_file" ->
         { [succeeded |-> ok, result |-> IF ok THEN "File written" ELSE "Failed to write file"] :
             ok \in BOOLEAN }
    [] name = "read_file" -> { [succeeded |-> TRUE, result |-> "contents"] }
    [] name = "search_code" -> { [succeeded |-> TRUE, result |-> "Found 0 matches"] }
    [] name = "generate_code" -> { [succeeded |-> TRUE, result |-> "code"] }
    [] OTHER -> { [succeeded |-> TRUE, result |-> "conclusion"] }

\* step.tool_name or "unknown"
SourceOf(step) == IF step.tool_name = None \/ step.tool_name = "" THEN "unknown" ELSE step.tool_name

\* the finally block (agent.py:221-224)
RunFinally ==
  /\ is_running' = FALSE
  /\ current_task' = None
  /\ current_step' = None

\* tool_selector.register_tool(tool), before run()
RegisterTool ==
  /\ run_pc = "idle"
  /\ tools = default_tools
  /\ \E x \in RegisterableTools : tools' = register_tool(tools, x)
  /\ UNCHANGED <<agent_state, run_locals, memory_vars, exec_vars>>
  /\ UNCHANGED <<prio_vars, overlap_vars, complexity_vars, select_vars, stm_config, shell_vars, validate_vars, retry_vars, decompose_vars, status_vars, safety_vars>>

\* agent.py:153-163: up to the await of create_execution_plan
RunCall ==
  /\ run_pc = "idle"
  /\ \E goal \in Goals :
       /\ is_running' = TRUE
       /\ current_task' = goal
       /\ conversation_history' = Append(conversation_history, [role |-> "user", content |-> goal])
  /\ run_pc' = "planning"
  /\ UNCHANGED <<current_step, execution_plan, step_index, results, run_return, escaped, started>>
  /\ UNCHANGED <<memory_vars, exec_vars, tools, prio_vars, overlap_vars, complexity_vars, select_vars, stm_config, shell_vars, validate_vars, retry_vars, decompose_vars, status_vars, safety_vars>>

\* agent.py:163-172 with Planner.create_execution_plan (core/planner.py:174-186):
\* the steps are Pending, carry fresh ids, any description and any
\* dependencies, and no parameters; the plan is Pending
PlanCreated ==
  /\ run_pc = "planning"
  /\ \E n \in 0..MaxSteps :
       \E deps \in PlanDepLists : \E descs \in [1..n -> StepDescriptions] :
         execution_plan' =
           [steps |-> [i \in 1..n |->
                         [NewStep(PlanIds[i], IF i = 1 THEN deps ELSE <<>>)
                            EXCEPT !.description = descs[i]]],
            status |-> PENDING]
  /\ run_pc' = "loop"
  /\ step_index' = 1
  /\ UNCHANGED <<is_running, current_task, current_step, conversation_history>>
  /\ UNCHANGED <<results, run_return, escaped, started>>
  /\ UNCHANGED <<memory_vars, exec_vars, tools, prio_vars, overlap_vars, complexity_vars, select_vars, stm_config, shell_vars, validate_vars, retry_vars, decompose_vars, status_vars, safety_vars>>

\* create_execution_plan raises (the LLM's JSON is no list of objects,
\* core/planner.py:82-86): the exception leaves run() through the finally block
PlanRaises ==
  /\ run_pc = "planning"
  /\ RunFinally
  /\ run_pc' = "raised"
  /\ escaped' = "TypeError"
  /\ UNCHANGED <<conversation_history, execution_plan, step_index, results, run_return, started>>
  /\ UNCHANGED <<memory_vars, exec_vars, tools, prio_vars, overlap_vars, complexity_vars, select_vars, stm_config, shell_vars, validate_vars, retry_vars, decompose_vars, status_vars, safety_vars>>

\* mutation of StepBegin: the step is not marked IN_PROGRESS before it runs
StepBeginUnmarked ==
  /\ run_pc = "loop"
  /\ step_index <= Len(execution_plan.steps)
  /\ current_step' = execution_plan.steps[step_index].id
  /\ started' = Append(started, execution_plan.steps[step_index].id)
  /\ run_pc' = "executing"
  /\ exec_pc' = "select"
  /\ UNCHANGED <<is_running, current_task, conversation_history, execution_plan>>
  /\ UNCHANGED <<step_index, results, run_return, escaped, tool, handler_calls>>
  /\ UNCHANGED <<memory_vars, tools, prio_vars, overlap_vars, complexity_vars, select_vars, stm_config, shell_vars, validate_vars, retry_vars, decompose_vars, status_vars, safety_vars>>

\* agent.py:176-181: the next step of plan.steps, in list order, is marked
\* IN_PROGRESS and _execute_step is awaited
StepBegin ==
  /\ run_pc = "loop"
  /\ step_index <= Len(execution_plan.steps)
  /\ current_step' = execution_plan.steps[step_index].id
  /\ execution_plan' = [execution_plan EXCEPT !.steps[step_index].status = IN_PROGRESS]
  /\ started' = Append(started, execution_plan.steps[step_index].id)
  /\ run_pc' = "executing"
  /\ exec_pc' = "select"
  /\ UNCHANGED <<is_running, current_task, conversation_history>>
  /\ UNCHANGED <<step_index, results, run_return, escaped, tool, handler_calls>>
  /\ UNCHANGED <<memory_vars, tools, prio_vars, overlap_vars, complexity_vars, select_vars, stm_config, shell_vars, validate_vars, retry_vars, decompose_vars, status_vars, safety_vars>>

\* the for loop is exhausted
LoopEnds ==
  /\ run_pc = "loop"
  /\ step_index > Len(execution_plan.steps)
  /\ run_pc' = "summary"
  /\ UNCHANGED <<agent_state, step_index, results, run_return, escaped, started>>
  /\ UNCHANGED <<memory_vars, exec_vars, tools, prio_vars, overlap_vars, complexity_vars, select_vars, stm_config, shell_vars, validate_vars, retry_vars, decompose_vars, status_vars, safety_vars>>

\* agent.py:229-250: select_tool picks the tool for the step's description;
\* no tool sends the step to the reasoning engine; a tool that requires
\* confirmation enters confirm_action with no callback, which approves at
\* once or blocks on input(); any other tool goes to its handler
ToolSelected ==
  /\ run_pc = "executing"
  /\ exec_pc = "select"
  /\ LET step == execution_plan.steps[step_index]
         tl == SelectedTool[<<tools, step.description>>]
     IN  /\ tool' = tl
         /\ IF tl = NoTool
            THEN /\ exec_pc' = "reason"
                 /\ UNCHANGED safety_vars
            ELSE IF tl.requires_confirmation
            THEN LET a == StepAction(tl, step)
                 IN  /\ confirm_action_enter(a, StepRiskOf[a], FALSE)
                     /\ exec_pc' = IF AutoApproved(StepRiskOf[a]) THEN "handler" ELSE "confirm"
            ELSE /\ exec_pc' = "handler"
                 /\ UNCHANGED safety_vars
  /\ UNCHANGED <<agent_state, run_locals, memory_vars, handler_calls, tools>>
  /\ UNCHANGED <<prio_vars, overlap_vars, complexity_vars, select_vars, stm_config, shell_vars, validate_vars, retry_vars, decompose_vars, status_vars>>

\* mutation of ConfirmAnswered: the answer is logged and the handler runs
\* whatever the answer was
ConfirmAnsweredProceeds ==
  /\ run_pc = "executing"
  /\ exec_pc = "confirm"
  /\ \E response \in StepPromptAnswers :
       /\ prompt_answered(response)
       /\ exec_pc' = "handler"
  /\ UNCHANGED <<agent_state, run_locals, memory_vars, tool, handler_calls, tools>>
  /\ UNCHANGED <<prio_vars, overlap_vars, complexity_vars, select_vars, stm_config, shell_vars, validate_vars, retry_vars, decompose_vars, status_vars>>

\* agent.py:248-250: input() answers the prompt of the gate; a refusal makes
\* _execute_step return the cancellation text
ConfirmAnswered ==
  /\ run_pc = "executing"
  /\ exec_pc = "confirm"
  /\ \E response \in StepPromptAnswers :
       /\ prompt_answered(response)
       /\ exec_pc' = IF PromptApproves(response) THEN "handler" ELSE "cancelled"
  /\ UNCHANGED <<agent_state, run_locals, memory_vars, tool, handler_calls, tools>>
  /\ UNCHANGED <<prio_vars, overlap_vars, complexity_vars, select_vars, stm_config, shell_vars, validate_vars, retry_vars, decompose_vars, status_vars>>

\* what _execute_step returns from a position, with whether the tool succeeded
ReturnsAt(pc, tl) ==
  CASE pc = "cancelled" -> { [succeeded |-> FALSE, result |-> "Action cancelled by user"] }
    [] pc = "reason" -> { [succeeded |-> TRUE, result |-> "conclusion"] }
    [] pc = "handler" -> HandlerOutcomes(tl.name)

\* the exceptions _execute_step raises from a position: input() at the
\* prompt of the gate; the handler or the reasoning engine elsewhere
\* (execute_shell catches every Exception, environment/terminal.py:103-117)
ErrorsAt(pc, tl) ==
  IF pc = "confirm" THEN { [type |-> "EOFError", message |-> "EOF when reading a line"] }
  ELSE IF pc = "handler" /\ tl.name = "execute_shell" THEN {}
  ELSE StepErrors

\* the concrete handler of the selected tool is what runs at this position
HandlerInvoked == exec_pc = "handler" /\ tool.name \in ConcreteHandlers

\* the record of one invocation of a concrete handler
HandlerCall(step, succeeded) ==
  [step |-> step.id, tool |-> tool.name, parameters |-> step.parameters,
   succeeded |-> succeeded]

\* agent.py:181-187: _execute_step returned
StepReturns ==
  /\ run_pc = "executing"
  /\ exec_pc \in {"cancelled", "reason", "handler"}
  /\ LET step == execution_plan.steps[step_index]
     IN  \E o \in ReturnsAt(exec_pc, tool) :
           /\ execution_plan' = [execution_plan EXCEPT !.steps[step_index].status = COMPLETED,
                                                       !.steps[step_index].result = o.result]
           /\ results' = Append(results, [step |-> step.description, success |-> TRUE,
                                          result |-> o.result])
           /\ add_output(o.result, SourceOf(step))
           /\ handler_calls' = IF HandlerInvoked
                               THEN Append(handler_calls, HandlerCall(step, o.succeeded))
                               ELSE handler_calls
  /\ step_index' = step_index + 1
  /\ run_pc' = "loop"
  /\ exec_pc' = "none"
  /\ tool' = NoTool
  /\ UNCHANGED <<is_running, current_task, current_step, conversation_history>>
  /\ UNCHANGED <<run_return, escaped, started, ltm_solutions, tools>>
  /\ UNCHANGED <<prio_vars, overlap_vars, complexity_vars, select_vars, stm_config, shell_vars, validate_vars, retry_vars, decompose_vars, status_vars, safety_vars>>

\* mutation of StepRaises: the handler's exception is not caught and leaves
\* run() through the finally block
StepRaisesAborts ==
  /\ run_pc = "executing"
  /\ exec_pc \in {"reason", "handler"}
  /\ \E e \in ErrorsAt(exec_pc, tool) :
       /\ execution_plan' = [execution_plan EXCEPT !.steps[step_index].status = FAILED,
                                                   !.steps[step_index].error = e.message]
       /\ escaped' = e.type
  /\ RunFinally
  /\ run_pc' = "raised"
  /\ exec_pc' = "none"
  /\ tool' = NoTool
  /\ UNCHANGED <<conversation_history, step_index, results, run_return, started>>
  /\ UNCHANGED <<memory_vars, handler_calls, tools, prio_vars, overlap_vars, complexity_vars, select_vars, stm_config, shell_vars, validate_vars, retry_vars, decompose_vars, status_vars, safety_vars>>

\* agent.py:189-203: _execute_step raised an Exception
StepRaises ==
  /\ run_pc = "executing"
  /\ exec_pc \in {"confirm", "reason", "handler"}
  /\ LET step == execution_plan.steps[step_index]
     IN  \E e \in ErrorsAt(exec_pc, tool) :
           /\ execution_plan' = [execution_plan EXCEPT !.steps[step_index].status = FAILED,
                                                       !.steps[step_index].error = e.message]
           /\ results' = Append(results, [step |-> step.description, success |-> FALSE,
                                          error |-> e.message,
                                          fix_suggestion |-> generate_fix(e)])
           /\ add_error(e.message, SourceOf(step))
           /\ handler_calls' = IF HandlerInvoked
                               THEN Append(handler_calls, HandlerCall(step, FALSE))
                               ELSE handler_calls
  /\ IF exec_pc = "confirm" THEN consult_raised ELSE UNCHANGED safety_vars
  /\ step_index' = step_index + 1
  /\ run_pc' = "loop"
  /\ exec_pc' = "none"
  /\ tool' = NoTool
  /\ UNCHANGED <<is_running, current_task, current_step, conversation_history>>
  /\ UNCHANGED <<run_return, escaped, started, ltm_solutions, tools>>
  /\ UNCHANGED <<prio_vars, overlap_vars, complexity_vars, select_vars, stm_config, shell_vars, validate_vars, retry_vars, decompose_vars, status_vars>>

\* _execute_step raised a BaseException that is no Exception (cancellation,
\* KeyboardInterrupt): except Exception does not catch it
StepAborts ==
  /\ run_pc = "executing"
  /\ exec_pc \in {"reason", "handler"}
  /\ escaped' = "BaseException"
  /\ RunFinally
  /\ run_pc' = "raised"
  /\ exec_pc' = "none"
  /\ tool' = NoTool
  /\ UNCHANGED <<conversation_history, execution_plan, step_index, results, run_return, started>>
  /\ UNCHANGED <<memory_vars, handler_calls, tools, prio_vars, overlap_vars, complexity_vars, select_vars, stm_config, shell_vars, validate_vars, retry_vars, decompose_vars, status_vars, safety_vars>>

\* mutation of StepEmergencyStop: the SystemExit is caught like an Exception
\* and the step is marked Failed
StepEmergencyStopCaught ==
  /\ run_pc = "executing"
  /\ exec_pc \in {"reason", "handler"}
  /\ emergency_stop
  /\ execution_plan' = [execution_plan EXCEPT !.steps[step_index].status = FAILED,
                                              !.steps[step_index].error = "Emergency stop activated"]
  /\ escaped' = "SystemExit"
  /\ step_index' = step_index + 1
  /\ run_pc' = "loop"
  /\ exec_pc' = "none"
  /\ tool' = NoTool
  /\ UNCHANGED <<is_running, current_task, current_step, conversation_history>>
  /\ UNCHANGED <<results, run_return, started>>
  /\ UNCHANGED <<memory_vars, handler_calls, tools, prio_vars, overlap_vars, complexity_vars, select_vars, stm_config, shell_vars, validate_vars, retry_vars, decompose_vars, status_vars>>

\* safety.emergency_stop() is called while the step executes: the entry is
\* logged and the SystemExit, no Exception, leaves run() through the finally
\* block (environment/safety.py:270-287, agent.py:189,221-224)
StepEmergencyStop ==
  /\ run_pc = "executing"
  /\ exec_pc \in {"reason", "handler"}
  /\ emergency_stop
  /\ escaped' = "SystemExit"
  /\ RunFinally
  /\ run_pc' = "raised"
  /\ exec_pc' = "none"
  /\ tool' = NoTool
  /\ UNCHANGED <<conversation_history, execution_plan, step_index, results, run_return, started>>
  /\ UNCHANGED <<memory_vars, handler_calls, tools, prio_vars, overlap_vars, complexity_vars, select_vars, stm_config, shell_vars, validate_vars, retry_vars, decompose_vars, status_vars>>

\* agent.py:205-224: the summary, the long-term memory record (its save to
\* disk may raise, core/memory_ltm.py:64-79,280-288), the assistant message,
\* the return through the finally block
Summarize ==
  /\ run_pc = "summary"
  /\ LET summary == generate_summary(results)
     IN  /\ ltm_solutions' = Append(ltm_solutions,
                                    [problem |-> current_task, solution |-> summary.overview,
                                     status |-> summary.status])
         /\ \E saved \in BOOLEAN :
              IF saved
              THEN /\ conversation_history' = Append(conversation_history,
                                                     [role |-> "assistant",
                                                      content |-> summary.overview])
                   /\ run_return' = summary.overview
                   /\ run_pc' = "returned"
                   /\ UNCHANGED escaped
              ELSE /\ run_pc' = "raised"
                   /\ escaped' = "OSError"
                   /\ UNCHANGED <<conversation_history, run_return>>
  /\ RunFinally
  /\ UNCHANGED <<execution_plan, step_index, results, started, exec_vars, tools>>
  /\ UNCHANGED <<stm_outputs, stm_errors, stm_context_items, prio_vars, overlap_vars, complexity_vars, select_vars, stm_config, shell_vars, validate_vars, retry_vars, decompose_vars, status_vars, safety_vars>>

\* get_state() (agent.py:330-338)
get_state ==
  [is_running |-> is_running,
   current_task |-> current_task,
   current_step |-> current_step,
   plan_status |-> IF execution_plan # NoPlan THEN execution_plan.status ELSE None,
   message_count |-> Len(conversation_history)]

RunInit ==
  /\ AgentConstructed
  /\ NoOverlappingRuns
  /\ ComplexityIdle
  /\ SelectIdle
  /\ WorkingMemoryDefaults
  /\ ShellIdle
  /\ ValidateIdle
  /\ RetryIdle
  /\ DecomposeIdle
  /\ PrioIdle
  /\ StatusIdle
  /\ SafetyIdle

RunNext ==
  \/ RegisterTool
  \/ RunCall
  \/ PlanCreated
  \/ PlanRaises
  \/ StepBegin
  \/ ToolSelected
  \/ ConfirmAnswered
  \/ LoopEnds
  \/ StepReturns
  \/ StepRaises
  \/ StepAborts
  \/ StepEmergencyStop
  \/ Summarize

SpecRun == RunInit /\ [][RunNext]_vars

(***************************************************************************)
(* SelfCorrector.retry_with_backoff (core/error_handler.py:259-320)        *)
(***************************************************************************)
\* the configs handed to retry_with_backoff: the default one, one whose
\* max_delay is reached by the second doubling, one that starts above its
\* max_delay, and one whose delays triple
RetryConfigs ==
  { NewRetryConfig(initial_delay, max_delay, exponential_base),
    NewRetryConfig(1, 3, 2),
    NewRetryConfig(5, 4, 2),
    NewRetryConfig(2, 30, 3) }

\* the types of the exceptions the action raises
RetryErrorTypes == {"ConnectionError", "ValueError"}

\* the exception object an attempt raised
RaisedAt(type, k) == [type |-> type, attempt |-> k]

Min(a, b) == IF a < b THEN a ELSE b

\* _record_action (core/error_handler.py:312-319); the timestamp is left out
_record_action(history, name, success, attempts) ==
  Append(history, [action |-> name, success |-> success, attempts |-> attempts])

\* retry_with_backoff(action, config) is called: config, last_error = None,
\* delay = config.initial_delay, and the loop is entered
RetryCall ==
  /\ retry_pc \in {"idle", "returned", "raised"}
  /\ Len(action_history) < MaxRetryCalls
  /\ \E m \in 0..MaxRetries : max_retries' = m
  /\ \E c \in RetryConfigs :
       /\ retry_config' = c
       /\ delay' = c.initial_delay
  /\ attempt' = 0
  /\ last_error' = NoError
  /\ retry_raised' = NoError
  /\ invocations' = <<>>
  /\ sleeps' = <<>>
  /\ history_at_call' = action_history
  /\ retry_pc' = "attempt"
  /\ UNCHANGED action_history
  /\ UNCHANGED <<prio_vars, overlap_vars, complexity_vars, select_vars, stm_config, shell_vars, validate_vars, status_vars, run_vars, safety_vars, decompose_vars>>

\* the action returns: the success is recorded with the attempt index and
\* the result is returned
AttemptReturns ==
  /\ retry_pc = "attempt"
  /\ invocations' = Append(invocations, [type |-> None, attempt |-> attempt])
  /\ action_history' = _record_action(action_history, "action", TRUE, attempt)
  /\ retry_pc' = "returned"
  /\ UNCHANGED <<retry_config, max_retries, attempt, delay, last_error, retry_raised, sleeps, history_at_call>>
  /\ UNCHANGED <<prio_vars, overlap_vars, complexity_vars, select_vars, stm_config, shell_vars, validate_vars, status_vars, run_vars, safety_vars, decompose_vars>>

\* mutation of AttemptRaises: the last retry is left out
AttemptRaisesOneLess ==
  /\ retry_pc = "attempt"
  /\ \E type \in RetryErrorTypes :
       LET e == RaisedAt(type, attempt)
       IN  /\ invocations' = Append(invocations, e)
           /\ last_error' = e
           /\ IF attempt + 1 < max_retries
              THEN /\ retry_pc' = "sleeping"
                   /\ UNCHANGED <<action_history, retry_raised>>
              ELSE /\ action_history' = _record_action(action_history, "action", FALSE, max_retries)
                   /\ retry_raised' = e
                   /\ retry_pc' = "raised"
  /\ UNCHANGED <<retry_config, max_retries, attempt, delay, sleeps, history_at_call>>
  /\ UNCHANGED <<prio_vars, overlap_vars, complexity_vars, select_vars, stm_config, shell_vars, validate_vars, status_vars, run_vars, safety_vars, decompose_vars>>

\* the action raises an Exception: it becomes last_error; with retries left
\* the call sleeps; after the last attempt the loop ends, the failure is
\* recorded with config.max_retries and last_error is raised
AttemptRaises ==
  /\ retry_pc = "attempt"
  /\ \E type \in RetryErrorTypes :
       LET e == RaisedAt(type, attempt)
       IN  /\ invocations' = Append(invocations, e)
           /\ last_error' = e
           /\ IF attempt < max_retries
              THEN /\ retry_pc' = "sleeping"
                   /\ UNCHANGED <<action_history, retry_raised>>
              ELSE /\ action_history' = _record_action(action_history, "action", FALSE, max_retries)
                   /\ retry_raised' = e
                   /\ retry_pc' = "raised"
  /\ UNCHANGED <<retry_config, max_retries, attempt, delay, sleeps, history_at_call>>
  /\ UNCHANGED <<prio_vars, overlap_vars, complexity_vars, select_vars, stm_config, shell_vars, validate_vars, status_vars, run_vars, safety_vars, decompose_vars>>

\* mutation of SleepReturns: the delay grows without the cap
SleepReturnsUncapped ==
  /\ retry_pc = "sleeping"
  /\ sleeps' = Append(sleeps, delay)
  /\ delay' = delay * retry_config.exponential_base
  /\ attempt' = attempt + 1
  /\ retry_pc' = "attempt"
  /\ UNCHANGED <<retry_config, max_retries, last_error, action_history, retry_raised, invocations, history_at_call>>
  /\ UNCHANGED <<prio_vars, overlap_vars, complexity_vars, select_vars, stm_config, shell_vars, validate_vars, status_vars, run_vars, safety_vars, decompose_vars>>

\* asyncio.sleep(delay) is over: the delay grows, capped at max_delay, and
\* the loop takes the next attempt
SleepReturns ==
  /\ retry_pc = "sleeping"
  /\ sleeps' = Append(sleeps, delay)
  /\ delay' = Min(delay * retry_config.exponential_base, retry_config.max_delay)
  /\ attempt' = attempt + 1
  /\ retry_pc' = "attempt"
  /\ UNCHANGED <<retry_config, max_retries, last_error, action_history, retry_raised, invocations, history_at_call>>
  /\ UNCHANGED <<prio_vars, overlap_vars, complexity_vars, select_vars, stm_config, shell_vars, validate_vars, status_vars, run_vars, safety_vars, decompose_vars>>

RetryInit ==
  /\ RetryIdle
  /\ DecomposeIdle
  /\ PrioIdle
  /\ StatusIdle
  /\ AgentConstructed
  /\ NoOverlappingRuns
  /\ ComplexityIdle
  /\ SelectIdle
  /\ WorkingMemoryDefaults
  /\ ShellIdle
  /\ ValidateIdle
  /\ SafetyIdle

RetryNext ==
  \/ RetryCall
  \/ AttemptReturns
  \/ AttemptRaises
  \/ SleepReturns

SpecRetry == RetryInit /\ [][RetryNext]_vars

(***************************************************************************)
(* GoalDecomposer.decompose_task (core/planner.py:26-101)                  *)
(***************************************************************************)
\* the goals handed to decompose_task
DecomposeGoals == {"Fix typo", "[]", "Add tests"}

\* what uuid.uuid4() gives
UUIDs == {"u1", "u2", "u3", "u4"}

\* what LLMClient.complete returns with no client (agent.py:64-65)
NotInitialized == "LLM client not initialized"

\* what LLMClient.complete returns from a provider: the text of the model, or
\* "Error: ..." for an exception of the provider (agent.py:67-97)
ProviderReplies ==
  { "[{\"description\": \"Open the file\"}, {\"description\": \"Fix the word\", \"dependencies\": [0]}]",
    "[{\"description\": \"Fix typo\"}]",
    "[]",
    "Here are the steps: 1. Open the file",
    "[{\"description\": \"Open the file\"},",
    "{\"description\": \"Open the file\"}",
    "{}",
    "[1, 2]",
    "42",
    "null",
    "\"Open the file\"",
    "\"\"",
    "Error: Connection error." }

JsonObject(description, dependencies) ==
  [kind |-> "object", keys |-> {"description"} \cup (IF dependencies = <<>> THEN {} ELSE {"dependencies"}),
   description |-> description, dependencies |-> dependencies]
JsonNumber == [kind |-> "number"]
JsonArray(items) == [kind |-> "array", items |-> items]
JSONDecodeError == [kind |-> "JSONDecodeError"]

\* json.loads over the replies above
json_loads(s) ==
  CASE s = "[{\"description\": \"Open the file\"}, {\"description\": \"Fix the word\", \"dependencies\": [0]}]" ->
         JsonArray(<< JsonObject("Open the file", <<>>), JsonObject("Fix the word", <<0>>) >>)
    [] s = "[{\"description\": \"Fix typo\"}]" -> JsonArray(<< JsonObject("Fix typo", <<>>) >>)
    [] s = "[]" -> JsonArray(<<>>)
    [] s = "{\"description\": \"Open the file\"}" -> JsonObject("Open the file", <<>>)
    [] s = "{}" -> [kind |-> "object", keys |-> {}]
    [] s = "[1, 2]" -> JsonArray(<< JsonNumber, JsonNumber >>)
    [] s = "42" -> JsonNumber
    [] s = "null" -> [kind |-> "null"]
    [] s = "\"Open the file\"" -> [kind |-> "string", text |-> "Open the file"]
    [] s = "\"\"" -> [kind |-> "string", text |-> ""]
    [] OTHER -> JSONDecodeError

\* what enumerate(steps_data) iterates over: the items of a list, the keys of
\* a dict, the characters of a str; anything else is not iterable
Iterated(v) ==
  CASE v.kind = "array" -> v.items
    [] v.kind = "object" -> [i \in 1..Cardinality(v.keys) |-> [kind |-> "string"]]
    [] v.kind = "string" -> [i \in 1..Len(v.text) |-> [kind |-> "string"]]
    [] OTHER -> <<>>

\* TaskStep(id=..., description=step_data.get("description", ""),
\*          dependencies=[str(d) for d in step_data.get("dependencies", [])], ...)
StepFrom(id, step_data) ==
  [NewStep(id, [k \in 1..Len(step_data.dependencies) |-> ToString(step_data.dependencies[k])])
     EXCEPT !.description = step_data.description]

\* TaskStep(id=..., description=text, status=TaskStatus.PENDING)
SingleStep(id, text) == [NewStep(id, <<>>) EXCEPT !.description = text]

\* _parse_steps_response (core/planner.py:74-101) with the uuids ids: the
\* returned steps, or the type of the exception it raises
_parse_steps_response(resp, ids) ==
  LET steps_data == json_loads(resp)
  IN  IF steps_data = JSONDecodeError
      THEN [raised |-> None, steps |-> << SingleStep(ids[1], resp) >>]
      ELSE IF steps_data.kind \notin {"array", "object", "string"}
      THEN [raised |-> "TypeError", steps |-> <<>>]
      ELSE LET items == Iterated(steps_data)
           IN  IF \E i \in 1..Len(items) : items[i].kind # "object"
               THEN [raised |-> "AttributeError", steps |-> <<>>]
               ELSE [raised |-> None,
                     steps |-> [i \in 1..Len(items) |-> StepFrom(ids[i], items[i])]]

\* the lists of distinct uuids
IdLists == { ids \in SeqsUpTo(UUIDs, 2) : \A i, j \in 1..Len(ids) : i # j => ids[i] # ids[j] }

\* the number of uuids the steps built from a response carry
IdsNeeded(resp) ==
  LET steps_data == json_loads(resp)
  IN  IF steps_data = JSONDecodeError THEN 1 ELSE Len(Iterated(steps_data))

\* decompose_task(goal) is called (core/planner.py:26-41): without an
\* llm_client the single step wrapping the goal is returned; with one,
\* complete(prompt) is awaited
DecomposeCall ==
  /\ decompose_pc = "idle"
  /\ \E goal \in DecomposeGoals :
       /\ goal_arg' = goal
       /\ IF llm_client = "absent"
          THEN /\ \E id \in UUIDs : decomposed' = << SingleStep(id, goal) >>
               /\ decompose_pc' = "returned"
          ELSE /\ decompose_pc' = "awaiting"
               /\ UNCHANGED decomposed
  /\ UNCHANGED <<llm_client, llm_response, decompose_raised>>
  /\ UNCHANGED <<prio_vars, overlap_vars, complexity_vars, select_vars, stm_config, shell_vars, validate_vars, status_vars, run_vars, safety_vars, retry_vars>>

\* what complete(prompt) returns
LLMReplies == IF llm_client = "configured" THEN ProviderReplies ELSE {NotInitialized}

\* complete(prompt) returned: the response is parsed and the steps are
\* returned, or the exception of the parse leaves decompose_task
\* (core/planner.py:41-53)
LLMCompletes ==
  /\ decompose_pc = "awaiting"
  /\ \E r \in LLMReplies : \E ids \in IdLists :
       LET parsed == _parse_steps_response(r, ids)
       IN  /\ Len(ids) = IdsNeeded(r)
           /\ llm_response' = r
           /\ decomposed' = parsed.steps
           /\ decompose_raised' = parsed.raised
           /\ decompose_pc' = IF parsed.raised = None THEN "returned" ELSE "raised"
  /\ UNCHANGED <<llm_client, goal_arg>>
  /\ UNCHANGED <<prio_vars, overlap_vars, complexity_vars, select_vars, stm_config, shell_vars, validate_vars, status_vars, run_vars, safety_vars, retry_vars>>

DecomposeInit ==
  /\ llm_client \in {"absent", "unconfigured", "configured"}
  /\ DecomposeNotCalled
  /\ RetryIdle
  /\ PrioIdle
  /\ StatusIdle
  /\ AgentConstructed
  /\ NoOverlappingRuns
  /\ ComplexityIdle
  /\ SelectIdle
  /\ WorkingMemoryDefaults
  /\ ShellIdle
  /\ ValidateIdle
  /\ SafetyIdle

DecomposeNext ==
  \/ DecomposeCall
  \/ LLMCompletes

SpecDecompose == DecomposeInit /\ [][DecomposeNext]_vars

(***************************************************************************)
(* ToolSelector.validate_tool_params on its own (core/selector.py:178-209) *)
(***************************************************************************)
\* the Python types of the parameter values supplied
PyTypes == {"str", "int", "bool", "list", "NoneType"}

\* a value of each Python type
PyValue(ty) ==
  [type |-> ty,
   value |-> IF ty = "str" THEN "ls" ELSE IF ty = "int" THEN "123"
             ELSE IF ty = "bool" THEN "True" ELSE IF ty = "list" THEN "[]" ELSE None]

\* the parameter names supplied: declared and required, declared and
\* optional, declared with a type the check does not know, and undeclared
ParamNames == {"command", "timeout", "files", "verbose", "extra"}

\* a tool with a parameter of each declared type
batch_tool ==
  NewTool("run_batch", "Run a batch of commands",
          [k \in {"command", "timeout", "files", "verbose"} |->
             IF k = "command" THEN "str" ELSE IF k = "timeout" THEN "int"
             ELSE IF k = "files" THEN "list" ELSE "bool"],
          <<"command", "timeout">>, MEDIUM, FALSE)

ValidatedTools == {default_tools[1], default_tools[6], batch_tool}

ParamDicts ==
  UNION { [names -> { PyValue(ty) : ty \in PyTypes }] : names \in SUBSET ParamNames }

ValidateInit ==
  /\ validate_tool \in ValidatedTools
  /\ validate_params \in ParamDicts
  /\ validate_ret = NoResult
  /\ PrioIdle
  /\ StatusIdle
  /\ AgentConstructed
  /\ NoOverlappingRuns
  /\ ComplexityIdle
  /\ SelectIdle
  /\ WorkingMemoryDefaults
  /\ ShellIdle
  /\ RetryIdle
  /\ DecomposeIdle
  /\ SafetyIdle

ValidateToolParams ==
  /\ validate_ret = NoResult
  /\ validate_ret' = validate_tool_params(validate_tool, validate_params)
  /\ UNCHANGED <<validate_tool, validate_params>>
  /\ UNCHANGED <<prio_vars, overlap_vars, complexity_vars, select_vars, stm_config, shell_vars, status_vars, run_vars, safety_vars, retry_vars, decompose_vars>>

SpecValidate == ValidateInit /\ [][ValidateToolParams]_vars

(***************************************************************************)
(* TerminalExecutionAgent.execute_shell (environment/terminal.py:50-122)   *)
(***************************************************************************)
\* self._dangerous_patterns
_dangerous_patterns ==
  << "rm -rf", "rm -fr", "rmdir", "> /dev/",
     "mkfs", "dd if=", "chmod -R 777",
     ":(){ :|:& };:", "wget", "curl | sh",
     "git push --force", "git reset --hard" >>

\* _is_dangerous(command): a pattern is looked for in the lower-cased command
_is_dangerous(command) ==
  LET command_lower == Lower(command)
  IN  \E k \in 1..Len(_dangerous_patterns) : StrContains(_dangerous_patterns[k], command_lower)

\* ExecutionResult(success, output, error, return_code, duration)
NewExecutionResult(success, output, error, return_code, duration) ==
  [success |-> success, output |-> output, error |-> error,
   return_code |-> return_code, duration |-> duration]

ShellCommands ==
  {"ls", "exit 1", "sleep 10", "rm -rf /", "RM -RF /", "chmod -R 777 /", "chmod -r 777 /",
   "git push --force"}

ShellTimeouts == {1, 5}

\* what a subprocess that ends leaves: its return code, stdout and stderr
ProcessOutcomes ==
  { <<0, "ok\n", "">>, <<1, "", "failed\n">>, <<1, "", "">> }

\* the exceptions create_subprocess_shell raises, as str(e)
SpawnErrors == {"[Errno 2] No such file or directory: '/missing'"}

\* the seconds communicate() took when it ended within the timeout
Durations(timeout) == 0..(timeout - 1)

\* execute_shell(command, timeout): the safe-mode check; a refused command
\* returns at once, another goes on to create_subprocess_shell
ExecuteShell ==
  /\ shell_pc \in {"idle", "returned"}
  /\ shell_calls < MaxShellCalls
  /\ \E command \in ShellCommands : \E timeout \in ShellTimeouts :
       /\ shell_command' = command
       /\ shell_timeout' = timeout
       /\ IF safe_mode /\ _is_dangerous(command)
          THEN /\ shell_result' =
                    NewExecutionResult(FALSE, "", "Command blocked by safe mode: " \o command,
                                       -1, 0)
               /\ shell_pc' = "returned"
          ELSE /\ shell_result' = NoResult
               /\ shell_pc' = "spawning"
  /\ shell_calls' = shell_calls + 1
  /\ UNCHANGED <<safe_mode, processes>>
  /\ UNCHANGED <<prio_vars, overlap_vars, complexity_vars, select_vars, stm_config, validate_vars, status_vars, run_vars, safety_vars, retry_vars, decompose_vars>>

\* await asyncio.create_subprocess_shell(...) returns the process
SubprocessCreated ==
  /\ shell_pc = "spawning"
  /\ processes' = Append(processes, [call |-> shell_calls, state |-> "running"])
  /\ shell_pc' = "communicating"
  /\ UNCHANGED <<safe_mode, shell_command, shell_timeout, shell_result, shell_calls>>
  /\ UNCHANGED <<prio_vars, overlap_vars, complexity_vars, select_vars, stm_config, validate_vars, status_vars, run_vars, safety_vars, retry_vars, decompose_vars>>

\* create_subprocess_shell raises: except Exception returns the failure
SubprocessFails ==
  /\ shell_pc = "spawning"
  /\ \E e \in SpawnErrors :
       shell_result' = NewExecutionResult(FALSE, "", e, -1, 0)
  /\ shell_pc' = "returned"
  /\ UNCHANGED <<safe_mode, shell_command, shell_timeout, processes, shell_calls>>
  /\ UNCHANGED <<prio_vars, overlap_vars, complexity_vars, select_vars, stm_config, validate_vars, status_vars, run_vars, safety_vars, retry_vars, decompose_vars>>

\* process.communicate() ends within the timeout: the subprocess has exited
CommunicateReturns ==
  /\ shell_pc = "communicating"
  /\ \E o \in ProcessOutcomes : \E d \in Durations(shell_timeout) :
       shell_result' =
         NewExecutionResult(o[1] = 0, o[2], IF o[3] # "" THEN o[3] ELSE None, o[1], d)
  /\ processes' = [processes EXCEPT ![Len(processes)].state = "exited"]
  /\ shell_pc' = "returned"
  /\ UNCHANGED <<safe_mode, shell_command, shell_timeout, shell_calls>>
  /\ UNCHANGED <<prio_vars, overlap_vars, complexity_vars, select_vars, stm_config, validate_vars, status_vars, run_vars, safety_vars, retry_vars, decompose_vars>>

\* asyncio.wait_for cancels communicate() and raises TimeoutError: the
\* handler returns the failure; nothing kills or waits for the subprocess
WaitForTimesOut ==
  /\ shell_pc = "communicating"
  /\ shell_result' =
       NewExecutionResult(FALSE, "",
         "Command timed out after " \o ToString(shell_timeout) \o " seconds", -1, shell_timeout)
  /\ shell_pc' = "returned"
  /\ UNCHANGED <<safe_mode, shell_command, shell_timeout, processes, shell_calls>>
  /\ UNCHANGED <<prio_vars, overlap_vars, complexity_vars, select_vars, stm_config, validate_vars, status_vars, run_vars, safety_vars, retry_vars, decompose_vars>>

\* a subprocess nobody waits for any more ends on its own
ProcessExits ==
  /\ \E k \in 1..Len(processes) :
       /\ processes[k].state = "running"
       /\ k < Len(processes) \/ shell_pc = "returned"
       /\ processes' = [processes EXCEPT ![k].state = "exited"]
  /\ UNCHANGED <<safe_mode, shell_pc, shell_command, shell_timeout, shell_result, shell_calls>>
  /\ UNCHANGED <<prio_vars, overlap_vars, complexity_vars, select_vars, stm_config, validate_vars, status_vars, run_vars, safety_vars, retry_vars, decompose_vars>>

ShellInit ==
  /\ safe_mode \in BOOLEAN
  /\ shell_pc = "idle"
  /\ shell_command = None
  /\ shell_timeout = 0
  /\ shell_result = NoResult
  /\ processes = <<>>
  /\ shell_calls = 0
  /\ PrioIdle
  /\ ValidateIdle
  /\ StatusIdle
  /\ AgentConstructed
  /\ NoOverlappingRuns
  /\ ComplexityIdle
  /\ SelectIdle
  /\ WorkingMemoryDefaults
  /\ RetryIdle
  /\ DecomposeIdle
  /\ SafetyIdle

ShellNext ==
  \/ ExecuteShell
  \/ SubprocessCreated
  \/ SubprocessFails
  \/ CommunicateReturns
  \/ WaitForTimesOut
  \/ ProcessExits

SpecShell == ShellInit /\ [][ShellNext]_vars

(***************************************************************************)
(* WorkingMemoryManager on its own (core/memory_stm.py:66-123)             *)
(***************************************************************************)
\* the sizes the manager is constructed with
OutputSizes == {1, 2}
ErrorSizes == {1, 2}
ItemSizes == {3}

MemoryContents == {"a", "b"}

MemoryCalls == Len(all_outputs) + Len(all_errors)

MemoryInit ==
  /\ stm_max_items \in ItemSizes
  /\ stm_max_outputs \in OutputSizes
  /\ stm_max_errors \in ErrorSizes
  /\ all_outputs = <<>>
  /\ all_errors = <<>>
  /\ PrioIdle
  /\ ShellIdle
  /\ ValidateIdle
  /\ StatusIdle
  /\ AgentConstructed
  /\ NoOverlappingRuns
  /\ ComplexityIdle
  /\ SelectIdle
  /\ RetryIdle
  /\ DecomposeIdle
  /\ SafetyIdle

\* stm.add_output(content, source)
AddOutput ==
  /\ MemoryCalls < MaxMemoryCalls
  /\ \E content \in MemoryContents :
       /\ add_output(content, "shell")
       /\ all_outputs' =
            Append(all_outputs, [content |-> content, source |-> "shell", success |-> TRUE])
  /\ UNCHANGED <<stm_max_items, stm_max_outputs, stm_max_errors, all_errors>>
  /\ UNCHANGED <<agent_state, run_locals, ltm_solutions, exec_vars, tools>>
  /\ UNCHANGED <<prio_vars, overlap_vars, complexity_vars, select_vars, shell_vars, validate_vars, status_vars, safety_vars, retry_vars, decompose_vars>>

\* stm.add_error(message, source)
AddError ==
  /\ MemoryCalls < MaxMemoryCalls
  /\ \E message \in MemoryContents :
       /\ add_error(message, "shell")
       /\ all_errors' =
            Append(all_errors, [message |-> message, source |-> "shell", traceback |-> None])
  /\ UNCHANGED <<stm_max_items, stm_max_outputs, stm_max_errors, all_outputs>>
  /\ UNCHANGED <<agent_state, run_locals, ltm_solutions, exec_vars, tools>>
  /\ UNCHANGED <<prio_vars, overlap_vars, complexity_vars, select_vars, shell_vars, validate_vars, status_vars, safety_vars, retry_vars, decompose_vars>>

MemoryNext ==
  \/ AddOutput
  \/ AddError

SpecMemory == MemoryInit /\ [][MemoryNext]_vars

(***************************************************************************)
(* ToolSelector.select_tool with available_tools (core/selector.py:126-176)*)
(***************************************************************************)
SelectTasks ==
  {"xyz abc 123", "read the config file", "push it", "deploy the app", "read and push"}

\* a tool that is in no registry
deploy_tool ==
  NewTool("deploy", "Deploy the app to production", Dict2("target", "str", "tag", "str"),
          <<"target">>, HIGH, TRUE)

\* a tool named like a registered one with another description
read_file_remote ==
  NewTool("read_file", "Fetch a remote file", Dict2("path", "str", "encoding", "str"),
          <<"path">>, LOW, FALSE)

CandidateTools == {default_tools[2], default_tools[6], deploy_tool, read_file_remote}

CandidateLists == SeqsUpTo(CandidateTools, 2)

SelectInit ==
  /\ select_task \in SelectTasks
  /\ select_given \in BOOLEAN
  /\ select_available \in (IF select_given THEN CandidateLists ELSE {<<>>})
  /\ select_ret = NoResult
  /\ PrioIdle
  /\ WorkingMemoryDefaults
  /\ ShellIdle
  /\ ValidateIdle
  /\ StatusIdle
  /\ AgentConstructed
  /\ NoOverlappingRuns
  /\ ComplexityIdle
  /\ RetryIdle
  /\ DecomposeIdle
  /\ SafetyIdle

\* the call returns a tool or None, or raises
SelectTool ==
  /\ select_ret = NoResult
  /\ select_ret' = select_tool_among(tools, select_task, select_available)
  /\ UNCHANGED <<select_task, select_given, select_available>>
  /\ UNCHANGED <<prio_vars, overlap_vars, complexity_vars, stm_config, shell_vars, validate_vars, status_vars, run_vars, safety_vars, retry_vars, decompose_vars>>

SpecSelect == SelectInit /\ [][SelectTool]_vars

(***************************************************************************)
(* GoalDecomposer.estimate_complexity (core/planner.py:103-150)            *)
(***************************************************************************)
\* the scores are floats with at most two decimals here: a score is modelled
\* by its hundredfold, 10.0 by 1000
Hundredths(n) == 100 * n

complex_keywords == <<"integrate", "optimize", "refactor", "architect", "design">>
simple_keywords == <<"add", "update", "fix", "change">>

\* any(kw in task_lower for kw in keywords)
AnyKeywordIn(keywords, task_lower) ==
  \E k \in 1..Len(keywords) : StrContains(keywords[k], task_lower)

Max(a, b) == IF a > b THEN a ELSE b

\* ComplexityScore(...): the fields overall, cognitive and technical are
\* declared Field(ge=0.0, le=10.0) (models.py:64-70), so the constructor
\* raises ValidationError for a value outside
ComplexityScore(overall, cognitive, technical, time_estimate, risk) ==
  IF \A v \in {overall, cognitive, technical} : 0 <= v /\ v <= Hundredths(10)
  THEN [raised |-> None,
        score |-> [overall |-> overall, cognitive |-> cognitive, technical |-> technical,
                   time_estimate |-> time_estimate, risk_level |-> risk]]
  ELSE [raised |-> "ValidationError", score |-> <<>>]

\* len(task.split()): the number of maximal runs of non-whitespace characters,
\* counted by the places where one starts
WordCount(s) ==
  Cardinality({ i \in 1..Len(s) :
                  /\ SubSeq(s, i, i) \notin Whitespace
                  /\ i = 1 \/ SubSeq(s, i - 1, i - 1) \in Whitespace })

\* estimate_complexity(task)
estimate_complexity(task) ==
  LET word_count == WordCount(task)
      task_lower == Lower(task)
      is_complex == AnyKeywordIn(complex_keywords, task_lower)
      is_simple == AnyKeywordIn(simple_keywords, task_lower)
      cognitive == Min(Hundredths(10), 10 * word_count)
                     + (IF is_complex THEN Hundredths(1) ELSE 0)
      adjusted == Hundredths(5) + (IF is_complex THEN Hundredths(2) ELSE 0)
                    - (IF is_simple THEN Hundredths(1) ELSE 0)
      technical == Max(0, Min(Hundredths(10), adjusted))
      overall == (cognitive + technical) \div 2
      time_estimate == (overall * 10) \div 100
      risk == IF overall > Hundredths(7) THEN HIGH
              ELSE IF overall > Hundredths(4) THEN MEDIUM ELSE LOW
  IN  ComplexityScore(overall, cognitive, technical, time_estimate, risk)

\* a text of n words
RECURSIVE Words(_)
Words(n) ==
  IF n = 0 THEN "" ELSE IF n = 1 THEN "w " ELSE Words(n \div 2) \o Words(n - n \div 2)

\* the lengths of the tasks, in words before the ending
TaskLengths == 0..12 \cup {49, 50, 88, 89, 90, 91, 98, 99, 100, 101, 150}

\* how a task ends
TaskEndings == {"", "Fix typo", "refactor it", "Design and add tests", "   "}

ComplexityTasks == { Words(n) \o e : n \in TaskLengths, e \in TaskEndings }

ComplexityInit ==
  /\ complexity_task \in ComplexityTasks
  /\ complexity_ret = NoResult
  /\ PrioIdle
  /\ SelectIdle
  /\ WorkingMemoryDefaults
  /\ ShellIdle
  /\ ValidateIdle
  /\ StatusIdle
  /\ AgentConstructed
  /\ NoOverlappingRuns
  /\ RetryIdle
  /\ DecomposeIdle
  /\ SafetyIdle

\* the call returns the score or raises
EstimateComplexity ==
  /\ complexity_ret = NoResult
  /\ complexity_ret' = estimate_complexity(complexity_task)
  /\ UNCHANGED complexity_task
  /\ UNCHANGED <<prio_vars, overlap_vars, select_vars, stm_config, shell_vars, validate_vars, status_vars, run_vars, safety_vars, retry_vars, decompose_vars>>

SpecComplexity == ComplexityInit /\ [][EstimateComplexity]_vars

(***************************************************************************)
(* OmniBuilderAgent.run called again while a call is suspended              *)
(* (agent.py:143-224): the event loop runs one call at a time and changes   *)
(* the call at an await, so an action is the code between two awaits.  The  *)
(* awaits are create_execution_plan (agent.py:163) and _execute_step        *)
(* (agent.py:181), whose own path is that of SpecRun: here it only returns   *)
(* or raises.                                                               *)
(***************************************************************************)
OverlapGoals == {"Fix typo", "Add tests"}

\* the uuid of step i of the plan of call c
OverlapStepId(c, i) == "step-" \o ToString(c) \o "-" \o ToString(i)

\* what _execute_step returns here and the Exceptions it raises
OverlapReturns == {"conclusion"}
OverlapErrors == { [type |-> "RuntimeError", message |-> "Timeout waiting"] }

\* the code of call c from the top of the for loop to the next await or to
\* the end of run(): with a step left it is marked and _execute_step is
\* awaited (agent.py:175-181); with none left the summary is made, stored and
\* returned through the finally block (agent.py:205-224), or the store raises.
\* p is the plan of the call, k the position in its steps, res its results
ContinueRun(c, p, k, res, owner) ==
  IF k <= Len(p.steps)
  THEN LET marked == [p EXCEPT !.steps[k].status = IN_PROGRESS]
       IN  /\ run_calls' = [run_calls EXCEPT ![c] = [pc |-> "executing", goal |-> @.goal,
                                                    plan |-> marked, index |-> k,
                                                    results |-> res]]
           /\ current_step' = p.steps[k].id
           /\ execution_plan' = IF owner = c THEN marked ELSE execution_plan
           /\ UNCHANGED <<is_running, current_task, conversation_history, ltm_solutions>>
  ELSE LET summary == generate_summary(res)
       IN  /\ ltm_solutions' = Append(ltm_solutions,
                                      [problem |-> run_calls[c].goal,
                                       solution |-> summary.overview,
                                       status |-> summary.status])
           /\ \E saved \in BOOLEAN :
                /\ conversation_history' =
                     IF saved
                     THEN Append(conversation_history,
                                 [role |-> "assistant", content |-> summary.overview])
                     ELSE conversation_history
                /\ run_calls' = [run_calls EXCEPT ![c] = [pc |-> IF saved THEN "returned"
                                                                 ELSE "raised",
                                                          goal |-> @.goal, plan |-> p,
                                                          index |-> k, results |-> res]]
           /\ execution_plan' = IF owner = c THEN p ELSE execution_plan
           /\ RunFinally

\* agent.py:153-163: a call starts and awaits create_execution_plan
OverlapRunCall ==
  /\ \E c \in 1..MaxOverlap : \E goal \in OverlapGoals :
       /\ run_calls[c].pc = "idle"
       /\ \A b \in 1..(c - 1) : run_calls[b].pc # "idle"
       /\ run_calls' = [run_calls EXCEPT ![c].pc = "planning", ![c].goal = goal]
       /\ is_running' = TRUE
       /\ current_task' = goal
       /\ conversation_history' = Append(conversation_history, [role |-> "user", content |-> goal])
  /\ UNCHANGED <<current_step, execution_plan, plan_owner, run_locals, memory_vars, exec_vars, tools>>
  /\ UNCHANGED <<prio_vars, complexity_vars, select_vars, stm_config, shell_vars, validate_vars, status_vars, safety_vars, retry_vars, decompose_vars>>

\* agent.py:163-181: the plan of a call arrives and becomes
\* self.state.execution_plan; the call goes on to its first step
OverlapPlanCreated ==
  /\ \E c \in 1..MaxOverlap : \E n \in 0..MaxOverlapSteps :
       /\ run_calls[c].pc = "planning"
       /\ plan_owner' = c
       /\ ContinueRun(c, [steps |-> [i \in 1..n |-> NewStep(OverlapStepId(c, i), <<>>)],
                          status |-> PENDING], 1, <<>>, c)
  /\ UNCHANGED <<stm_outputs, stm_errors, stm_context_items, run_locals, exec_vars, tools>>
  /\ UNCHANGED <<prio_vars, complexity_vars, select_vars, stm_config, shell_vars, validate_vars, status_vars, safety_vars, retry_vars, decompose_vars>>

\* create_execution_plan raises: the call leaves through the finally block
OverlapPlanRaises ==
  /\ \E c \in 1..MaxOverlap :
       /\ run_calls[c].pc = "planning"
       /\ run_calls' = [run_calls EXCEPT ![c].pc = "raised"]
  /\ RunFinally
  /\ UNCHANGED <<conversation_history, execution_plan, plan_owner, run_locals, memory_vars, exec_vars, tools>>
  /\ UNCHANGED <<prio_vars, complexity_vars, select_vars, stm_config, shell_vars, validate_vars, status_vars, safety_vars, retry_vars, decompose_vars>>

\* agent.py:181-187: _execute_step returned to a call, which goes on
OverlapStepReturns ==
  /\ \E c \in 1..MaxOverlap : \E r \in OverlapReturns :
       LET call == run_calls[c]
           step == call.plan.steps[call.index]
       IN  /\ call.pc = "executing"
           /\ add_output(r, SourceOf(step))
           /\ ContinueRun(c, [call.plan EXCEPT !.steps[call.index].status = COMPLETED,
                                               !.steps[call.index].result = r],
                          call.index + 1,
                          Append(call.results,
                                 [step |-> step.description, success |-> TRUE, result |-> r]),
                          plan_owner)
  /\ UNCHANGED <<plan_owner, run_locals, exec_vars, tools>>
  /\ UNCHANGED <<prio_vars, complexity_vars, select_vars, stm_config, shell_vars, validate_vars, status_vars, safety_vars, retry_vars, decompose_vars>>

\* agent.py:189-203: _execute_step raised an Exception to a call, which goes on
OverlapStepRaises ==
  /\ \E c \in 1..MaxOverlap : \E e \in OverlapErrors :
       LET call == run_calls[c]
           step == call.plan.steps[call.index]
       IN  /\ call.pc = "executing"
           /\ add_error(e.message, SourceOf(step))
           /\ ContinueRun(c, [call.plan EXCEPT !.steps[call.index].status = FAILED,
                                               !.steps[call.index].error = e.message],
                          call.index + 1,
                          Append(call.results,
                                 [step |-> step.description, success |-> FALSE,
                                  error |-> e.message, fix_suggestion |-> generate_fix(e)]),
                          plan_owner)
  /\ UNCHANGED <<plan_owner, run_locals, exec_vars, tools>>
  /\ UNCHANGED <<prio_vars, complexity_vars, select_vars, stm_config, shell_vars, validate_vars, status_vars, safety_vars, retry_vars, decompose_vars>>

\* _execute_step raised a BaseException that is no Exception (cancellation):
\* the call leaves through the finally block
OverlapStepAborts ==
  /\ \E c \in 1..MaxOverlap :
       /\ run_calls[c].pc = "executing"
       /\ run_calls' = [run_calls EXCEPT ![c].pc = "raised"]
  /\ RunFinally
  /\ UNCHANGED <<conversation_history, execution_plan, plan_owner, run_locals, memory_vars, exec_vars, tools>>
  /\ UNCHANGED <<prio_vars, complexity_vars, select_vars, stm_config, shell_vars, validate_vars, status_vars, safety_vars, retry_vars, decompose_vars>>

OverlapInit ==
  /\ NoOverlappingRuns
  /\ AgentConstructed
  /\ ComplexityIdle
  /\ SelectIdle
  /\ WorkingMemoryDefaults
  /\ ShellIdle
  /\ ValidateIdle
  /\ PrioIdle
  /\ StatusIdle
  /\ RetryIdle
  /\ DecomposeIdle
  /\ SafetyIdle

OverlapNext ==
  \/ OverlapRunCall
  \/ OverlapPlanCreated
  \/ OverlapPlanRaises
  \/ OverlapStepReturns
  \/ OverlapStepRaises
  \/ OverlapStepAborts

SpecOverlap == OverlapInit /\ [][OverlapNext]_vars

(***************************************************************************)
(* Claims about prioritize_steps                                           *)
(***************************************************************************)
IdsOf(ss) == { ss[i].id : i \in 1..Len(ss) }

DistinctIds(ss) == \A i, j \in 1..Len(ss) : ss[i].id = ss[j].id => i = j

DepsInList(ss) == \A i \in 1..Len(ss) : Range(ss[i].dependencies) \subseteq IdsOf(ss)

\* the dependency graph: an edge from a step's id to each of its dependencies
DepEdges(ss) ==
  UNION { { <<ss[i].id, d>> : d \in Range(ss[i].dependencies) } : i \in 1..Len(ss) }

RECURSIVE Closure(_, _)
Closure(R, n) ==
  IF n = 0 THEN R
  ELSE Closure(R \cup { <<p[1][1], p[2][2]>> : p \in { q \in R \X R : q[1][2] = q[2][1] } },
               n - 1)

Acyclic(ss) == \A e \in Closure(DepEdges(ss), Len(ss)) : e[1] # e[2]

\* every step of out stands after a step carrying each of its dependencies
DepsFirst(out) ==
  \A i \in 1..Len(out) : \A k \in 1..Len(out[i].dependencies) :
    \E j \in 1..(i - 1) : out[j].id = out[i].dependencies[k]

CountIn(x, s) == Cardinality({ i \in 1..Len(s) : s[i] = x })

IsPermutation(s, t) ==
  /\ Len(s) = Len(t)
  /\ \A x \in Range(s) \cup Range(t) : CountIn(x, s) = CountIn(x, t)

\* C1: for steps with distinct ids, an acyclic dependency graph and every
\* dependency naming a step of the list, prioritize_steps returns a list in
\* which every step stands after all of its dependencies.
C1_TopologicalOrder ==
  (prio_pc # "call" /\ DistinctIds(steps) /\ DepsInList(steps) /\ Acyclic(steps))
    => (prio_pc = "returned" /\ DepsFirst(ordered))

\* the scheduler reordered a three-step acyclic input in which one step has
\* two dependencies and stands first
C1_Witness ==
  /\ prio_pc = "returned"
  /\ Len(steps) = 3
  /\ DistinctIds(steps) /\ DepsInList(steps) /\ Acyclic(steps)
  /\ Len(steps[1].dependencies) = 2
  /\ ordered # steps

\* C2: for every input (cycles, self-dependencies, dependencies on ids that
\* no step carries, repeated steps) prioritize_steps returns, raises nothing,
\* and its result is a permutation of the input.
C2_Permutation ==
  prio_pc # "call" => (prio_pc = "returned" /\ IsPermutation(ordered, steps))

\* returned on an input with a dependency cycle, a dependency on an absent id
\* and one step given twice
C2_Witness ==
  /\ prio_pc = "returned"
  /\ Len(steps) = 3
  /\ ~Acyclic(steps)
  /\ ~DepsInList(steps)
  /\ ~DistinctIds(steps)
  /\ \E i, j \in 1..Len(steps) : i # j /\ steps[i] = steps[j]

(***************************************************************************)
(* Claims about update_plan_status                                         *)
(***************************************************************************)
\* C6: after update_plan_status the plan is Completed when all steps are
\* Completed, otherwise Failed when a step is Failed, otherwise InProgress
\* when a step is InProgress, otherwise Blocked when a step is Blocked.
C6_PriorityRule ==
  plan_pc = "updated" =>
    LET st == StepStatuses(plan)
        allCompleted == \A i \in 1..Len(st) : st[i] = COMPLETED
        has(s) == \E i \in 1..Len(st) : st[i] = s
    IN  /\ allCompleted => plan.status = COMPLETED
        /\ (~allCompleted /\ has(FAILED)) => plan.status = FAILED
        /\ (~allCompleted /\ ~has(FAILED) /\ has(IN_PROGRESS)) => plan.status = IN_PROGRESS
        /\ (~allCompleted /\ ~has(FAILED) /\ ~has(IN_PROGRESS) /\ has(BLOCKED))
             => plan.status = BLOCKED

\* updated a plan holding a Completed, an InProgress and a Failed step
C6_Witness ==
  /\ plan_pc = "updated"
  /\ Len(plan.steps) = 3
  /\ plan.steps[1].status = COMPLETED
  /\ plan.steps[2].status = IN_PROGRESS
  /\ plan.steps[3].status = FAILED
  /\ plan.status = FAILED

\* C7: the status update_plan_status leaves is a function of the step
\* statuses alone: two plans with the same step statuses, whatever status
\* each had before, have the same status after the update.
C7_PureFunction ==
  (plan_pc = "updated" /\ StepStatuses(plan) = StepStatuses(twin)) => plan.status = twin.status

(***************************************************************************)
(* Claims about OmniBuilderAgent.run                                       *)
(***************************************************************************)
IdList(ss) == [i \in 1..Len(ss) |-> ss[i].id]

IsPrefix(s, t) == Len(s) <= Len(t) /\ SubSeq(t, 1, Len(s)) = s

Terminal == {COMPLETED, FAILED}

\* C3: run() starts the steps of the plan in the order prioritize_steps gives
\* for plan.steps, not in the order of plan.steps: the ids marked IN_PROGRESS
\* so far are a prefix of the scheduler's order, and a step that depends on a
\* later step of plan.steps is not started before that step has finished.
\* (Stated for plans whose dependencies name steps of the plan and form no
\* cycle, where the scheduler's order is a topological one.)
C3_SchedulerOrder ==
  (execution_plan # NoPlan /\ DepsInList(execution_plan.steps) /\ Acyclic(execution_plan.steps))
    => /\ IsPrefix(started, IdList(prioritize_steps(execution_plan.steps).ordered))
       /\ \A i, j \in 1..Len(execution_plan.steps) :
            (i < j /\ execution_plan.steps[j].id \in Range(execution_plan.steps[i].dependencies)
               /\ execution_plan.steps[i].status # PENDING)
              => execution_plan.steps[j].status \in Terminal

\* C4: a step whose handler raises an error is marked Failed and the loop
\* goes on to the next step: the error never leaves run(), and when run()
\* returns every step has been started, in order, and is Completed or Failed.
C4_FailureDoesNotAbort ==
  /\ escaped \notin { e.type : e \in StepErrors }
  /\ execution_plan # NoPlan =>
       \A i \in 1..Len(execution_plan.steps) :
         execution_plan.steps[i].status = FAILED => step_index > i
  /\ run_pc = "returned" =>
       /\ \A i \in 1..Len(execution_plan.steps) : execution_plan.steps[i].status \in Terminal
       /\ started = IdList(execution_plan.steps)
       /\ Len(results) = Len(execution_plan.steps)

\* run() returned after its first and third step failed and its second completed
C4_Witness ==
  /\ run_pc = "returned"
  /\ Len(execution_plan.steps) = 3
  /\ execution_plan.steps[1].status = FAILED
  /\ execution_plan.steps[2].status = COMPLETED
  /\ execution_plan.steps[3].status = FAILED
  /\ Len(started) = 3

StepMove(s, t) ==
  \/ t = s
  \/ /\ s.status = PENDING
     /\ t = [s EXCEPT !.status = IN_PROGRESS]
  \/ /\ s.status = IN_PROGRESS
     /\ t.status \in Terminal
     /\ [t EXCEPT !.status = s.status, !.result = s.result, !.error = s.error] = s

\* C5: during run() a step's status only moves Pending -> InProgress ->
\* Completed or Failed; no step is ever Blocked; a Completed or Failed step's
\* status, result and error never change again.
C5_StepStateMachine ==
  /\ [](execution_plan # NoPlan =>
          \A i \in 1..Len(execution_plan.steps) : execution_plan.steps[i].status # BLOCKED)
  /\ [][ /\ execution_plan = NoPlan =>
              (execution_plan' = NoPlan \/
                 \A i \in 1..Len(execution_plan'.steps) :
                   execution_plan'.steps[i].status = PENDING)
         /\ execution_plan # NoPlan =>
              /\ execution_plan' # NoPlan
              /\ Len(execution_plan'.steps) = Len(execution_plan.steps)
              /\ \A i \in 1..Len(execution_plan.steps) :
                   StepMove(execution_plan.steps[i], execution_plan'.steps[i]) ]_vars

\* run() returned with one step Completed (its result set) and a later one
\* Failed (its error set)
C5_Witness ==
  /\ run_pc = "returned"
  /\ Len(execution_plan.steps) >= 2
  /\ execution_plan.steps[1].status = COMPLETED
  /\ execution_plan.steps[1].result # None
  /\ execution_plan.steps[2].status = FAILED
  /\ execution_plan.steps[2].error # None

\* C8: in every state get_state() can observe, the plan's status is the
\* status derived from its steps (stated for plans of at least one step).
C8_PlanStatusDerived ==
  (execution_plan # NoPlan /\ Len(execution_plan.steps) > 0) =>
    get_state.plan_status = update_plan_status(execution_plan).status


(***************************************************************************)
(* Claims about SafetyPrompt.confirm_action                                *)
(***************************************************************************)
NeedsApproval == risk_level \in {MEDIUM, HIGH, CRITICAL}

\* s is "yes" or "y" in some mix of upper and lower case
YesIgnoringCase(s) == Lower(s) \in {"yes", "y"}

\* s is whitespace, then "yes" or "y" in some mix of case, then whitespace
YesIgnoringCaseAndSpace(s) ==
  \E i, j \in 1..Len(s) :
    /\ i <= j
    /\ YesIgnoringCase(SubSeq(s, i, j))
    /\ \A k \in 1..Len(s) : (k < i \/ k > j) => SubSeq(s, k, k) \in Whitespace

\* the call consulted its source of approval exactly once: the callback when
\* one was supplied, otherwise the prompt
ConsultedOnce ==
  /\ callback_calls = (IF callback_supplied THEN 1 ELSE 0)
  /\ prompt_calls = (IF callback_supplied THEN 0 ELSE 1)

\* C9 as stated: a call on an action of risk Medium, High or Critical that
\* has returned consulted the callback exactly once when one was supplied
\* (otherwise the prompt), and returned true only if the callback returned
\* true or the prompt answer was "yes" or "y" in some mix of case.
C9_AsStated ==
  (confirm_pc = "returned" /\ NeedsApproval) =>
    /\ ConsultedOnce
    /\ confirm_result =>
         IF callback_supplied THEN callback_reply ELSE YesIgnoringCase(prompt_reply)

\* C9, amended: a call on an action of risk Medium, High or Critical that has
\* returned consulted the callback exactly once when one was supplied
\* (otherwise the prompt), and returned true only if the callback returned
\* true or the prompt answer, with the whitespace around it removed, was
\* "yes" or "y" in some mix of case.
C9_ApprovalSolicited ==
  (confirm_pc = "returned" /\ NeedsApproval) =>
    /\ ConsultedOnce
    /\ confirm_result =>
         IF callback_supplied THEN callback_reply
         ELSE YesIgnoringCaseAndSpace(prompt_reply)

C9_Witness ==
  /\ confirm_pc = "returned"
  /\ risk_level = CRITICAL
  /\ action.command = None
  /\ ~callback_supplied
  /\ prompt_calls = 1
  /\ prompt_reply = "YES"
  /\ confirm_result

\* C10: with auto_approve_low_risk set, a call on an action classified Low
\* returns true at once, without invoking the callback or the prompt, and
\* the audit log is the log at the call plus one approved entry for the
\* action whose user_response is "auto-approved".
C10_AutoApproveLow ==
  (confirm_pc # "idle" /\ auto_approve_low_risk /\ classify_risk(action) = LOW) =>
    /\ confirm_pc = "returned"
    /\ confirm_result
    /\ callback_calls = 0
    /\ prompt_calls = 0
    /\ Len(audit_log) = Len(audit_at_call) + 1
    /\ SubSeq(audit_log, 1, Len(audit_at_call)) = audit_at_call
    /\ audit_log[Len(audit_log)].user_response = "auto-approved"
    /\ audit_log[Len(audit_log)].approved
    /\ audit_log[Len(audit_log)].action = action.name
    /\ audit_log[Len(audit_log)].risk_level = LOW

C10_Witness ==
  /\ confirm_pc = "returned"
  /\ auto_approve_low_risk
  /\ risk_level = LOW
  /\ callback_supplied
  /\ action.name = "git_push"
  /\ confirm_result
  /\ Len(audit_log) = 2
  /\ audit_log[2].user_response = "auto-approved"

\* the entry the current call appended, when it appended exactly one
LastEntry == audit_log[Len(audit_log)]

\* the log is the log at the call plus exactly one entry
OneEntryAppended ==
  /\ Len(audit_log) = Len(audit_at_call) + 1
  /\ SubSeq(audit_log, 1, Len(audit_at_call)) = audit_at_call

\* the call took the automatic path: nobody was consulted
AutomaticPath == callback_calls = 0 /\ prompt_calls = 0

\* C11: a confirm_action call that has returned appended exactly one audit
\* entry; the entry names the action, carries classify_risk(action) as its
\* risk_level and the returned boolean as approved, and its user_response is
\* the sentinel "auto-approved" on the automatic path and the raw string the
\* user typed when the prompt was used.
C11_AuditEntryRecorded ==
  confirm_pc = "returned" =>
    /\ OneEntryAppended
    /\ LastEntry.action = action.name
    /\ LastEntry.description = action.description
    /\ LastEntry.command = action.command
    /\ LastEntry.risk_level = classify_risk(action)
    /\ LastEntry.approved = confirm_result
    /\ AutomaticPath => LastEntry.user_response = "auto-approved"
    /\ prompt_calls = 1 => LastEntry.user_response = prompt_reply

\* C12: the audit log is append-only: across every step of confirm_action,
\* require_approval, log_sensitive_action and emergency_stop the log before
\* the step is a prefix of the log after it.
C12_AppendOnly == [][IsPrefix(audit_log, audit_log')]_vars

\* an emergency stop, then a batch of two actions answered at the prompt
C12_Witness ==
  /\ Len(audit_log) = 3
  /\ audit_log[1].user_response = "emergency"
  /\ audit_log[2].user_response = "batch"
  /\ audit_log[3].user_response = "batch"
  /\ audit_log[2].action = "execute_shell"
  /\ api_pc = "approval_returned"

(***************************************************************************)
(* Claims about SafetyPrompt.classify_risk                                 *)
(***************************************************************************)
\* the text classify_risk looks at, before lower-casing: the command when
\* there is one, otherwise "name description"
TextOf(a) ==
  IF a.command # None /\ a.command # "" THEN a.command ELSE a.name \o " " \o a.description

\* pattern occurs in text at some position, letter case ignored
OccursIn(pattern, text) ==
  \E i \in 1..(Len(text) - Len(pattern) + 1) :
    \A k \in 1..Len(pattern) :
      LowerChar(SubSeq(text, i + k - 1, i + k - 1)) = LowerChar(SubSeq(pattern, k, k))

TierMatches(patterns, a) == \E k \in 1..Len(patterns) : OccursIn(patterns[k], TextOf(a))

\* C14: classify_risk returns the most severe tier one of whose patterns
\* occurs in the check string: Critical when a Critical pattern occurs, else
\* High when a High pattern occurs, else Medium when a Medium pattern occurs,
\* else Low.
C14_MostSevereTier ==
  classify_ret # None =>
    classify_ret =
      IF TierMatches(_critical_patterns, classify_arg) THEN CRITICAL
      ELSE IF TierMatches(_high_risk_patterns, classify_arg) THEN HIGH
      ELSE IF TierMatches(_medium_risk_patterns, classify_arg) THEN MEDIUM
      ELSE LOW

\* a command that holds a Critical pattern (in another letter case) and a
\* Medium pattern
C14_Witness ==
  /\ classify_arg.command = "chmod -r 777 /srv"
  /\ TierMatches(_critical_patterns, classify_arg)
  /\ TierMatches(_medium_risk_patterns, classify_arg)
  /\ classify_ret = CRITICAL

(***************************************************************************)
(* Claims about the confirmation gate of _execute_step                     *)
(***************************************************************************)
\* the step run() is executing
CurrentStep == execution_plan.steps[step_index]

\* a concrete handler is invoked by this step of the model
HandlerRuns == handler_calls' # handler_calls

\* confirm_action returned this value for the action of the current step
GateReturned(approved) ==
  /\ confirm_pc = "returned"
  /\ confirm_result = approved
  /\ action = StepAction(tool, CurrentStep)

\* C13: for a step whose selected tool requires confirmation, a handler is
\* invoked only after confirm_action returned true for the step's action; when
\* it returned false no handler is invoked, the step ends Completed with the
\* cancellation text as its result, and the loop goes on to the next step
C13_GateBeforeHandler ==
  [][ /\ (HandlerRuns /\ tool.requires_confirmation) => GateReturned(TRUE)
      /\ (run_pc = "executing" /\ exec_pc = "cancelled") =>
           /\ GateReturned(FALSE)
           /\ ~HandlerRuns
           /\ execution_plan'.steps[step_index].status = COMPLETED
           /\ execution_plan'.steps[step_index].result = "Action cancelled by user"
           /\ run_pc' = "loop"
           /\ step_index' = step_index + 1 ]_vars

\* a refused first step ended Completed with the cancellation text, no handler
\* ran for it, and the second step ran its handler after an approval
C13_Witness ==
  /\ execution_plan # NoPlan
  /\ Len(execution_plan.steps) >= 2
  /\ execution_plan.steps[1].status = COMPLETED
  /\ execution_plan.steps[1].result = "Action cancelled by user"
  /\ execution_plan.steps[2].status = COMPLETED
  /\ Len(handler_calls) = 1
  /\ handler_calls[1].step = execution_plan.steps[2].id
  /\ handler_calls[1].tool = "execute_shell"
  /\ tools # default_tools
  /\ confirm_calls = 2
  /\ confirm_result = TRUE


(***************************************************************************)
(* Claims about emergency_stop                                             *)
(***************************************************************************)
\* the audit entry emergency_stop logs
EmergencyEntry ==
  [action |-> "emergency_stop", description |-> "Emergency stop activated by user",
   command |-> None, target |-> None, risk_level |-> CRITICAL, approved |-> FALSE,
   user_response |-> "emergency"]

\* C15: emergency_stop appends exactly one entry (Critical, not approved,
\* user_response "emergency") and raises SystemExit; called while a step
\* executes, the SystemExit is not caught by the per-step recovery: it leaves
\* run(), the step is not marked Failed and gets no result record, and no
\* later step is started
C15_EmergencyStopEscapes ==
  /\ [][ other_calls' # other_calls =>
           /\ audit_log' = Append(audit_log, EmergencyEntry)
           /\ api_pc' = "stopped"
           /\ escaped' = "SystemExit"
           /\ run_pc' = "raised"
           /\ execution_plan' = execution_plan
           /\ results' = results
           /\ started' = started ]_vars
  /\ [](escaped = "SystemExit" =>
          /\ run_pc = "raised"
          /\ ~is_running
          /\ execution_plan.steps[step_index].status = IN_PROGRESS
          /\ \A i \in (step_index + 1)..Len(execution_plan.steps) :
               execution_plan.steps[i].status = PENDING
          /\ Len(started) = step_index
          /\ Len(results) = step_index - 1)

\* emergency_stop was called while the second of three steps executed
C15_Witness ==
  /\ escaped = "SystemExit"
  /\ Len(execution_plan.steps) = 3
  /\ step_index = 2
  /\ execution_plan.steps[1].status = COMPLETED
  /\ execution_plan.steps[2].status = IN_PROGRESS
  /\ execution_plan.steps[3].status = PENDING
  /\ audit_log = <<EmergencyEntry>>


(***************************************************************************)
(* Claims about the Summary of a run                                       *)
(***************************************************************************)
\* the Summary run() computed, as recorded in long-term memory
SummaryStatus == ltm_solutions[Len(ltm_solutions)].status

\* the position in the plan of the step of a handler call
PositionOf(call) ==
  CHOOSE i \in 1..Len(execution_plan.steps) : execution_plan.steps[i].id = call.step

\* C17: a step whose shell command failed (success=false) or whose write
\* returned false is counted as failed in the Summary, so the Summary status
\* is "success" only when every step's tool succeeded
C17_ToolFailureCounted ==
  run_pc = "returned" =>
    /\ \A k \in 1..Len(handler_calls) :
         ~handler_calls[k].succeeded => ~results[PositionOf(handler_calls[k])].success
    /\ SummaryStatus = "success" =>
         \A k \in 1..Len(handler_calls) : handler_calls[k].succeeded


\* the number of steps of the plan that ended with a status
CountStatus(status) ==
  Cardinality({ i \in 1..Len(execution_plan.steps) : execution_plan.steps[i].status = status })

\* C18: the Summary of a run over a plan of N steps reports N operations, S
\* of them succeeded and F failed, where S steps ended Completed and F ended
\* Failed and S + F = N; its status is "empty" when N = 0, "success" when
\* F = 0, "failed" when S = 0, and "partial" otherwise
C18_SummaryCounts ==
  run_pc = "returned" =>
    LET N == Len(execution_plan.steps)
        S == CountStatus(COMPLETED)
        F == CountStatus(FAILED)
    IN  /\ S + F = N
        /\ run_return = IF N = 0 THEN "No results to summarize"
                        ELSE "Completed " \o ToString(N) \o " operations: "
                               \o ToString(S) \o " succeeded, "
                               \o ToString(F) \o " failed"
        /\ SummaryStatus = IF N = 0 THEN "empty"
                           ELSE IF F = 0 THEN "success"
                           ELSE IF S = 0 THEN "failed"
                           ELSE "partial"

\* run() returned a partial Summary: two of three steps Completed, one Failed
C18_Witness ==
  /\ run_pc = "returned"
  /\ Len(execution_plan.steps) = 3
  /\ CountStatus(COMPLETED) = 2
  /\ CountStatus(FAILED) = 1
  /\ SummaryStatus = "partial"
  /\ run_return = "Completed 3 operations: 2 succeeded, 1 failed"


(***************************************************************************)
(* Claims about retry_with_backoff                                         *)
(***************************************************************************)
\* every invocation of the action made by the call raised
AlwaysFailed == \A k \in 1..Len(invocations) : invocations[k].type # None

WellFormedArray(resp) ==
  LET v == json_loads(resp)
  IN  /\ v # JSONDecodeError
      /\ v.kind = "array"
      /\ \A i \in 1..Len(v.items) : v.items[i].kind = "object"

\* the LLM service is absent or unconfigured, or its response is no
\* well-formed array of step objects
Degraded ==
  \/ llm_client \in {"absent", "unconfigured"}
  \/ ~WellFormedArray(llm_response)

\* C19: when the LLM service is absent or unconfigured, or its response is
\* no well-formed array of step objects, decompose_task raises nothing and
\* returns exactly one Pending step whose description is the goal unchanged
C19_DegradesToGoal ==
  (decompose_pc \in {"returned", "raised"} /\ Degraded) =>
    /\ decompose_pc = "returned"
    /\ Len(decomposed) = 1
    /\ decomposed[1].status = PENDING
    /\ decomposed[1].description = goal_arg


(***************************************************************************)
(* Claims about parameter validation                                       *)
(***************************************************************************)
\* the registered tool of a name
ToolNamed(name) == tools[CHOOSE i \in 1..Len(tools) : tools[i].name = name]

\* C20: run() never invokes a tool's concrete handler with parameters that
\* have not passed validate_tool_params against the selected tool; a step
\* whose parameters miss a required parameter does not reach the handler
C20_ValidatedBeforeHandler ==
  \A k \in 1..Len(handler_calls) :
    validate_tool_params(ToolNamed(handler_calls[k].tool), handler_calls[k].parameters).valid

(***************************************************************************)
(* Claims about validate_tool_params                                       *)
(***************************************************************************)
\* a supplied value has the declared type: string, integer or list as
\* isinstance decides it, a bool being an int
HasDeclaredType(v, declared) ==
  \/ declared = "str" /\ v.type = "str"
  \/ declared = "int" /\ v.type \in {"int", "bool"}
  \/ declared = "list" /\ v.type = "list"
  \/ declared \notin {"str", "int", "list"}

RequiredSupplied(tl, params) ==
  \A k \in 1..Len(tl.required_params) :
    /\ tl.required_params[k] \in DOMAIN params
    /\ params[tl.required_params[k]].type # "NoneType"

DeclaredWellTyped(tl, params) ==
  \A n \in DOMAIN params :
    n \in DOMAIN tl.parameters => HasDeclaredType(params[n], tl.parameters[n])

\* C21: once validate_tool_params has returned, valid is true exactly when
\* the error list is empty, and the error list is empty exactly when every
\* required parameter is supplied with a non-None value and every supplied
\* parameter the schema declares has its declared type (str, int or list;
\* a bool passes for an int); an undeclared parameter changes nothing
C21_ValidExactlyWhenWellFormed ==
  validate_ret # NoResult =>
    /\ validate_ret.valid <=> validate_ret.errors = {}
    /\ validate_ret.errors = {} <=>
         /\ RequiredSupplied(validate_tool, validate_params)
         /\ DeclaredWellTyped(validate_tool, validate_params)
    /\ \A n \in DOMAIN validate_params \ DOMAIN validate_tool.parameters :
         validate_ret =
           validate_tool_params(validate_tool,
             [m \in DOMAIN validate_params \ {n} |-> validate_params[m]])

\* a call that returned errors for a mistyped optional parameter while an
\* undeclared parameter and every required one were supplied
C21_Witness ==
  /\ validate_ret # NoResult
  /\ validate_tool = batch_tool
  /\ RequiredSupplied(validate_tool, validate_params)
  /\ "extra" \in DOMAIN validate_params
  /\ "files" \in DOMAIN validate_params
  /\ validate_params["files"].type = "str"
  /\ ~validate_ret.valid
  /\ validate_ret.errors = {"Parameter 'files' should be list"}

(***************************************************************************)
(* Claims about execute_shell                                              *)
(***************************************************************************)
\* the command of the last call contains a pattern of the deny-list
ContainsDeniedPattern ==
  \E k \in 1..Len(_dangerous_patterns) : StrContains(_dangerous_patterns[k], shell_command)

\* the subprocesses started for the last call
ProcessesOfCall == { k \in 1..Len(processes) : processes[k].call = shell_calls }

\* C22: in safe mode a call of execute_shell whose command contains a
\* pattern of the deny-list has returned success=false with an error
\* containing "blocked", and no subprocess was started for it
C22_DenyListRefused ==
  (safe_mode /\ shell_calls > 0 /\ ContainsDeniedPattern) =>
    /\ ProcessesOfCall = {}
    /\ shell_pc = "returned" =>
         /\ ~shell_result.success
         /\ StrContains("blocked", Lower(shell_result.error))

\* C23: when execute_shell has returned the timeout failure, the subprocess
\* of the call is not running any more
C23_TimedOutProcessTerminated ==
  (/\ shell_pc = "returned"
   /\ shell_result.error = "Command timed out after " \o ToString(shell_timeout) \o " seconds") =>
    /\ ~shell_result.success
    /\ \A k \in ProcessesOfCall : processes[k].state # "running"

(***************************************************************************)
(* Claims about the working memory                                         *)
(***************************************************************************)
\* the last n entries of a list, in its order
LastN(s, n) == SubSeq(s, Len(s) - n + 1, Len(s))

\* C24: after any sequence of add_output and add_error calls the outputs
\* deque holds the most recent min(k, max_outputs) of the k outputs added and
\* the errors deque the most recent min(k', max_errors) of the k' errors
\* added, each in the order of the calls; the sizes are never exceeded
C24_BuffersHoldMostRecent ==
  /\ stm_outputs = LastN(all_outputs, Min(Len(all_outputs), stm_max_outputs))
  /\ stm_errors = LastN(all_errors, Min(Len(all_errors), stm_max_errors))
  /\ Len(stm_outputs) <= stm_max_outputs
  /\ Len(stm_errors) <= stm_max_errors

\* more outputs and more errors were added than the deques hold, the ones
\* that left differing from the ones that stayed
C24_Witness ==
  /\ Len(all_outputs) > stm_max_outputs
  /\ Len(all_errors) > stm_max_errors
  /\ all_outputs[1] # all_outputs[Len(all_outputs)]
  /\ all_errors[1] # all_errors[Len(all_errors)]
  /\ Len(stm_outputs) = stm_max_outputs
  /\ Len(stm_errors) = stm_max_errors

(***************************************************************************)
(* Claims about the backoff of retry_with_backoff                          *)
(***************************************************************************)
\* the sum of a list of numbers
RECURSIVE Sum(_)
Sum(s) == IF s = <<>> THEN 0 ELSE s[1] + Sum(Tail(s))

\* the invocations that raised and were followed by another invocation: the
\* last invocation is followed by none (a sleep after it is still under way)
FailedThenRetried ==
  IF retry_pc = "attempt" THEN Len(invocations) ELSE Len(invocations) - 1

\* C25: retry_with_backoff has slept once for each failed attempt that
\* another attempt followed, so not after the attempt that returned and not
\* after the last failed attempt (max_retries sleeps on exhaustion); the
\* first sleep lasts initial_delay and each next one min(previous *
\* exponential_base, max_delay); with max_retries = 2 an exhausted call has
\* waited initial_delay + min(initial_delay * exponential_base, max_delay)
C25_SleepsBetweenAttempts ==
  retry_pc # "idle" =>
    /\ Len(sleeps) = FailedThenRetried
    /\ retry_pc = "sleeping" => attempt < max_retries /\ invocations[Len(invocations)].type # None
    /\ retry_pc = "raised" => Len(sleeps) = max_retries
    /\ \A i \in 1..Len(sleeps) : invocations[i].type # None
    /\ Len(sleeps) > 0 => sleeps[1] = retry_config.initial_delay
    /\ \A i \in 1..(Len(sleeps) - 1) :
         sleeps[i + 1] =
           Min(sleeps[i] * retry_config.exponential_base, retry_config.max_delay)
    /\ (retry_pc = "raised" /\ max_retries = 2) =>
         Sum(sleeps) =
           retry_config.initial_delay +
             Min(retry_config.initial_delay * retry_config.exponential_base,
                 retry_config.max_delay)

\* an exhausted call with three retries whose third sleep was cut to
\* max_delay
C25_Witness ==
  /\ retry_pc = "raised"
  /\ max_retries = 3
  /\ retry_config = NewRetryConfig(1, 3, 2)
  /\ sleeps = <<1, 2, 3>>

(***************************************************************************)
(* Claims about select_tool                                                *)
(***************************************************************************)
\* the candidate tools of the call: the members of available_tools when it
\* was given, the tools of the registry otherwise
Candidates == IF select_given THEN Range(select_available) ELSE Range(tools)

\* C26: a select_tool call never raises; it returns None exactly when every
\* candidate tool scores 0, and otherwise one of the candidate tools whose
\* score is the highest among the candidates
C26_ArgmaxOfCandidates ==
  select_ret # NoResult =>
    /\ select_ret.raised = None
    /\ select_ret.tool = NoTool <=>
         \A c \in Candidates : ToolScore(c, Lower(select_task)) = 0
    /\ select_ret.tool # NoTool =>
         /\ select_ret.tool \in Candidates
         /\ \A c \in Candidates :
              ToolScore(c, Lower(select_task)) <= ToolScore(select_ret.tool, Lower(select_task))

(***************************************************************************)
(* Claims about the dependencies decompose_task returns                    *)
(***************************************************************************)
\* C27: every dependency of every step decompose_task returned is the id of
\* a step of the returned list
C27_DependenciesAreStepIds ==
  decompose_pc = "returned" =>
    \A i \in 1..Len(decomposed) :
      \A k \in 1..Len(decomposed[i].dependencies) :
        \E j \in 1..Len(decomposed) : decomposed[j].id = decomposed[i].dependencies[k]

(***************************************************************************)
(* Claims about estimate_complexity                                        *)
(***************************************************************************)
\* C28: estimate_complexity returns for every task without raising; the
\* cognitive, technical and overall scores lie in [0, 10] and cognitive is
\* min(10, word count / 10)
C28_ScoresInRange ==
  complexity_ret # NoResult =>
    /\ complexity_ret.raised = None
    /\ \A v \in {complexity_ret.score.overall, complexity_ret.score.cognitive,
                 complexity_ret.score.technical} : 0 <= v /\ v <= Hundredths(10)
    /\ complexity_ret.score.cognitive =
         Min(Hundredths(10), 10 * WordCount(complexity_task))

(***************************************************************************)
(* Claims about the gate and the risk level a tool is registered with      *)
(***************************************************************************)
\* the selected tool of the step under execution is registered as requiring
\* confirmation with the risk level High or Critical
HighRiskToolSelected ==
  /\ run_pc = "executing"
  /\ exec_pc \in {"confirm", "cancelled", "handler"}
  /\ tool.requires_confirmation
  /\ tool.risk_level \in {HIGH, CRITICAL}

\* C29: a step whose selected tool is registered with requires_confirmation
\* and the risk level High or Critical does not pass the gate by
\* auto-approval: the callback or the prompt was consulted for it
C29_HighRiskToolConsulted ==
  HighRiskToolSelected => ~AutomaticPath

(***************************************************************************)
(* Claims about is_running under overlapping run() calls                   *)
(***************************************************************************)
\* the run() calls that have started and neither returned nor raised
RunsInProgress == { c \in 1..MaxOverlap : run_calls[c].pc \in {"planning", "executing"} }

\* C30: get_state().is_running is true whenever at least one run() call is in
\* progress, and false, with current_task and current_step cleared, when
\* none is, also after an error; of two overlapping calls the first to
\* finish leaves is_running true
C30_RunningWhileAnyRun ==
  /\ RunsInProgress # {} => get_state.is_running
  /\ RunsInProgress = {} =>
       /\ ~get_state.is_running
       /\ get_state.current_task = None
       /\ get_state.current_step = None

====
